---- MODULE Spec2Model ----
(***************************************************************************)
(* A model of dataviews/collector.py: the ViewGroup attribute tree with    *)
(* its root-level flat index (path_items), the Aggregator / Analysis       *)
(* tasks and the Collector run loop (Collector.__call__).                  *)
(*                                                                         *)
(* Python objects live in heaps, so that aliasing is kept: G holds the     *)
(* ViewGroup objects, S the Stack objects (time-keyed containers) and T    *)
(* the task objects.  A value is a reference [k, i]: k is the kind of the  *)
(* object and i its heap index (or, for an immutable View, its identity).  *)
(* An exception raised by the code is the err field of the world record    *)
(* that the operators thread through: once set, the remaining statements   *)
(* of the handler are skipped and what was mutated before stays mutated.   *)
(***************************************************************************)
EXTENDS Integers, Sequences, FiniteSets, TLC

VARIABLES G, S, T, Refs, type_hooks, selected, clock, pc, run, scheduled, outcome, log, nv,
          pre, nruns, hist

vars == <<G, S, T, Refs, type_hooks, selected, clock, pc, run, scheduled, outcome, log,
          nv, pre, nruns, hist>>

\* ------------------------------------------------------------------ bounds
\* Scheduled time values are drawn from 1..MaxTime.
MaxTime == 3
\* The steps of all runs of one behaviour together (caps the clock).
MaxSteps == 3
\* The number of calls of the Collector in one behaviour.
MaxRuns == 2
\* The number of tree operations in one behaviour of SpecTree.
MaxOps == 3
\* The number of MERGE-mode collect calls in one behaviour.
MaxMerge == 1
\* The number of ViewRef objects in one behaviour.
MaxRefs == 3
MaxCalls == 3

\* ------------------------------------------------------------------ values
Labels == {"a", "b", "c", "p", "q", "r", "z"}

NoneV == [k |-> "none", i |-> 0]
GroupV(n) == [k |-> "group", i |-> n]
StackV(n) == [k |-> "stack", i |-> n]
ViewV(n) == [k |-> "view", i |-> n]
TaskV(n) == [k |-> "task", i |-> n]
OtherV(n) == [k |-> "other", i |-> n]

\* A key of path_items: a structural path (a tuple of labels) or a synthetic
\* uuid string.
PathKey(p) == [tuple |-> TRUE, p |-> p]
UuidKey(u) == [tuple |-> FALSE, p |-> <<u>>]
NoKey == [tuple |-> FALSE, p |-> <<>>]

\* No entry of type_hooks selected
NoEntry == [hookfn |-> "none", mode |-> "none", referencer |-> "none"]

\* ViewGroup.__init__
NewGroupRec(label, parent) ==
    [parent |-> parent, label |-> label, children |-> <<>>,
     slots |-> [l \in Labels |-> NoneV], path_items |-> <<>>, fixed |-> FALSE]

\* The world threaded through the operators: the heaps, the pending
\* exception, the value returned, the View counter and the event log.
World(g, s, t, n, l) ==
    [G |-> g, S |-> s, T |-> t, err |-> "", ret |-> NoneV, nv |-> n, log |-> l]

Raise(W, e) == [W EXCEPT !.err = e]
Return(W, v) == [W EXCEPT !.ret = v]

\* Sequencing: E is evaluated once and Op applied to its value.
Bind(E, Op(_)) == CHOOSE r \in {Op(w) : w \in {E}} : TRUE

InSeq(x, seq) == \E j \in 1..Len(seq) : seq[j] = x

Range(seq) == {seq[j] : j \in 1..Len(seq)}

\* ------------------------------------------------------------ OrderedDict
PIHas(items, key) == \E j \in 1..Len(items) : items[j].key = key

PIGet(items, key) ==
    LET j == CHOOSE j \in 1..Len(items) : items[j].key = key IN items[j].val

\* d[key] = val: a key already present keeps its position.
PISet(items, key, val) ==
    IF PIHas(items, key)
    THEN [j \in 1..Len(items) |->
            IF items[j].key = key THEN [key |-> key, val |-> val] ELSE items[j]]
    ELSE Append(items, [key |-> key, val |-> val])

RECURSIVE PIUpdateFrom(_, _, _)
PIUpdateFrom(items, other, j) ==
    IF j > Len(other) THEN items
    ELSE Bind(PISet(items, other[j].key, other[j].val),
              LAMBDA d : PIUpdateFrom(d, other, j + 1))

\* d.update(other)
\* An update that appends the other's entries, present or not
PIUpdate_Concat(items, other) == items \o other

PIUpdate(items, other) == PIUpdateFrom(items, other, 1)

PIKeys(items) == [j \in 1..Len(items) |-> items[j].key]

\* --------------------------------------------------------------- ViewGroup
\* ViewGroup.__contains__ for a label
Contains(W, node, label) ==
    \/ InSeq(label, W.G[node].children)
    \/ PIHas(W.G[node].path_items, UuidKey(label))

\* ViewGroup.__contains__ for a path key (never one of the children labels)
ContainsKey(W, node, key) == PIHas(W.G[node].path_items, key)

RECURSIVE Propagate(_, _, _, _)
Propagate(W, node, path, val) ==
    IF W.G[node].parent = 0
    THEN [W EXCEPT !.G[node].path_items = PISet(@, PathKey(path), val)]
    ELSE Propagate(W, W.G[node].parent, <<W.G[node].label>> \o path, val)

Shallow(W, node) ==
    \/ W.G[node].parent = 0
    \/ W.G[W.G[node].parent].parent = 0

\* ViewGroup.__setattr__ for a label other than 'fixed' and not starting '_'
SetAttr(W, node, label, val) ==
    IF W.err # "" THEN W
    ELSE IF W.G[node].fixed /\ Shallow(W, node) THEN Raise(W, "FixedTreeError")
    ELSE IF InSeq(label, W.G[node].children)
    THEN [W EXCEPT !.G[node].slots[label] = val]
    ELSE Bind([W EXCEPT !.G[node].slots[label] = val,
                        !.G[node].children = Append(@, label)],
              LAMBDA W1 : Propagate(W1, node, <<label>>, val))

\* ViewGroup.__getattr__ called as a method (super().__getattr__ always fails)
GetAttrCall(W, node, label) ==
    IF W.err # "" THEN W
    ELSE IF W.G[node].fixed THEN Raise(W, "FixedTreeError")
    ELSE IF InSeq(label, W.G[node].children)
         THEN Return(W, W.G[node].slots[label])
    ELSE LET id == Len(W.G) + 1 IN
         [W EXCEPT !.G = Append([@ EXCEPT ![node].children = Append(@, label),
                                          ![node].slots[label] = GroupV(id)],
                                NewGroupRec(label, node)),
                   !.ret = GroupV(id)]

\* Attribute access node.label: __getattr__ only runs when the normal lookup
\* in __dict__ fails.
GetAttr(W, node, label) ==
    IF W.err # "" THEN W
    ELSE IF W.G[node].slots[label] # NoneV THEN Return(W, W.G[node].slots[label])
    ELSE GetAttrCall(W, node, label)

\* ViewGroup.set_path
RECURSIVE SetPath(_, _, _, _)
SetPath(W, node, path, val) ==
    IF W.err # "" THEN W
    ELSE IF Len(path) > 1
    THEN Bind(GetAttrCall(W, node, path[1]),
              LAMBDA W1 : IF W1.err # "" THEN W1
                          ELSE IF W1.ret.k # "group" THEN Raise(W1, "AttributeError")
                          ELSE SetPath(W1, W1.ret.i, Tail(path), val))
    ELSE SetAttr(W, node, path[1], val)

\* The assignment statement node.<path> = val, as the interpreter runs it:
\* attribute accesses for all labels but the last, __setattr__ for the last.
RECURSIVE AssignPath(_, _, _, _)
AssignPath(W, node, path, val) ==
    IF W.err # "" THEN W
    ELSE IF Len(path) > 1
    THEN Bind(GetAttr(W, node, path[1]),
              LAMBDA W1 : IF W1.err # "" THEN W1
                          ELSE IF W1.ret.k # "group" THEN Raise(W1, "AttributeError")
                          ELSE AssignPath(W1, W1.ret.i, Tail(path), val))
    ELSE SetAttr(W, node, path[1], val)

\* NdMapping.update on two Stacks: the other's entries are set into self
StackUpdate(s1, s2) ==
    [t \in (DOMAIN s1) \cup (DOMAIN s2) |-> IF t \in DOMAIN s2 THEN s2[t] ELSE s1[t]]

\* The body of the loop of ViewGroup.update for one label of other
RECURSIVE Update(_, _, _), UpdateLoop(_, _, _, _)
\* A merge that sets every label of other into self, present or not
UpdateItem_Overwrite(W, self, label, item) == SetAttr(W, self, label, item)

UpdateItem(W, self, label, item) ==
    IF ~Contains(W, self, label) THEN SetAttr(W, self, label, item)
    ELSE LET mine == W.G[self].slots[label] IN
         IF mine.k = "group" /\ item.k = "group" THEN Update(W, mine.i, item.i)
         ELSE IF mine.k = "stack" /\ item.k = "stack"
         THEN [W EXCEPT !.S[mine.i] = StackUpdate(@, W.S[item.i])]
         ELSE Raise(W, "AttributeError")

UpdateLoop(W, self, other, j) ==
    IF W.err # "" \/ j > Len(W.G[other].children) THEN W
    ELSE Bind(UpdateItem(W, self, W.G[other].children[j],
                         W.G[other].slots[W.G[other].children[j]]),
              LAMBDA W1 : UpdateLoop(W1, self, other, j + 1))

\* ViewGroup.update
Update(W, self, other) ==
    IF W.err # "" THEN W
    ELSE IF W.G[self].parent = 0
    THEN Bind([W EXCEPT !.G[self].path_items = PIUpdate(@, W.G[other].path_items)],
              LAMBDA W0 : UpdateLoop(W0, self, other, 1))
    ELSE UpdateLoop(W, self, other, 1)

\* Walking a tree along a path through __dict__ (node.a.b), NoneV when a
\* label is missing on the way.
RECURSIVE Walk(_, _, _)
Walk(g, v, path) ==
    IF path = <<>> THEN v
    ELSE IF v.k # "group" THEN NoneV
    ELSE Walk(g, g[v.i].slots[path[1]], Tail(path))

\* ------------------------------------------------------------------ Stack
\* A Stack holding the single pair (time, val)
NewStack(W, time, val) ==
    [W EXCEPT !.S = Append(@, [t \in {time} |-> val]),
              !.ret = StackV(Len(W.S) + 1)]

\* current_val[time] = val
StackSet(s, time, val) ==
    [t \in (DOMAIN s) \cup {time} |-> IF t = time THEN val ELSE s[t]]

\* An event of the log: e its kind, s the step, a and b what it is about
\* (advance: the delta; read: the time; invoke: the task; resolve: the task
\* and the object found; tree: the task and the ViewGroup its hook returned;
\* apply: the task and the time; merge: the task), v the View made by an
\* apply.
Event(e, s, a, b) == [e |-> e, s |-> s, a |-> a, b |-> b, v |-> 0]

Logged(W, ev) == [W EXCEPT !.log = Append(@, ev)]

\* A fresh View object, as returned by a hook or a ViewOperation
FreshView(W) == [W EXCEPT !.nv = @ + 1, !.ret = ViewV(W.nv + 1)]

\* The transform of task tid applied at a step: a fresh View, logged
Applied(W, tid, time, step) ==
    [W EXCEPT !.nv = @ + 1, !.ret = ViewV(W.nv + 1),
              !.log = Append(@, [Event("apply", step, tid, time)
                                   EXCEPT !.v = W.nv + 1])]

\* ---------------------------------------------------------------- ViewRef
\* What the exception of _resolve_ref carries: the specification
\* ('.'.join(ref)) and the label that was not found
Unresolved(ref, label) ==
    [k |-> "unresolved", i |-> 0, spec |-> ref, level |-> label]

\* ViewRef._resolve_ref: ret is the object found, or what the exception
\* carries; j is the position of the loop in ref
RECURSIVE ResolveRefAt(_, _, _, _)
\* A walk by attribute access (getattr(obj, label)), which makes the
\* ViewGroup of a missing label on its way
ResolveRefAt_ByAttribute(W, obj, ref, j) ==
    IF W.err # "" \/ j > Len(ref) THEN Return(W, obj)
    ELSE IF obj.k = "group"
    THEN Bind(GetAttr(W, obj.i, ref[j]),
              LAMBDA W1 : IF W1.err # "" THEN W1
                          ELSE ResolveRefAt(W1, W1.ret, ref, j + 1))
    ELSE Return(Raise(W, "UnresolvedReferenceError"), Unresolved(ref, ref[j]))

\* A walk whose exception names the last label of the specification
ResolveRefAt_LastLabel(W, obj, ref, j) ==
    IF W.err # "" \/ j > Len(ref) THEN Return(W, obj)
    ELSE IF obj.k = "group" /\ Contains(W, obj.i, ref[j])
    THEN IF InSeq(ref[j], W.G[obj.i].children)
         THEN ResolveRefAt(W, W.G[obj.i].slots[ref[j]], ref, j + 1)
         ELSE Raise(W, "KeyError")
    ELSE Return(Raise(W, "UnresolvedReferenceError"), Unresolved(ref, ref[Len(ref)]))

ResolveRefAt(W, obj, ref, j) ==
    IF W.err # "" \/ j > Len(ref) THEN Return(W, obj)
    ELSE IF obj.k = "group" /\ Contains(W, obj.i, ref[j])
    THEN IF InSeq(ref[j], W.G[obj.i].children)
         THEN ResolveRefAt(W, W.G[obj.i].slots[ref[j]], ref, j + 1)
         ELSE Raise(W, "KeyError")
    ELSE Return(Raise(W, "UnresolvedReferenceError"), Unresolved(ref, ref[j]))

ResolveRef(W, obj, ref) == ResolveRefAt(W, obj, ref, 1)

\* ViewRef.resolve: the views of the specifications, overlaid in list order.
\* An overlay is a new object; the log keeps its two operands.
RECURSIVE ResolveFrom(_, _, _, _, _)
ResolveFrom(W, vg, spec, j, acc) ==
    IF W.err # "" THEN W
    ELSE IF j > Len(spec) THEN Return(W, acc)
    ELSE Bind(ResolveRef(W, GroupV(vg), spec[j]),
              LAMBDA W1 :
                IF W1.err # "" THEN W1
                ELSE IF acc = NoneV THEN ResolveFrom(W1, vg, spec, j + 1, W1.ret)
                ELSE Bind(FreshView(Logged(W1, Event("overlay", 0, acc.i, W1.ret.i))),
                          LAMBDA W2 : ResolveFrom(W2, vg, spec, j + 1, W2.ret)))

Resolve(W, vg, spec) == ResolveFrom(W, vg, spec, 1, NoneV)

\* ------------------------------------------------------------- Aggregator
\* Aggregator.__init__ / Analysis.__init__: path is None
NewTask(cls, mode, stackwise, hook, ref) ==
    [cls |-> cls, mode |-> mode, stackwise |-> stackwise, hook |-> hook,
     ref |-> ref, path |-> NoKey]

\* The leaves of the ViewGroup a MERGE-mode hook returns here
HookLeaves == <<<<"p">>, <<"q">>, <<"z", "p">>>>

\* A hook returning a new ViewGroup with the leaves p, q and z.p (three new
\* Views), built by attribute assignment: g.p = v1; g.q = v2; g.z.p = v3
TreeHook(W, tid, time, step) ==
    Bind([W EXCEPT !.G = Append(@, NewGroupRec("", 0)), !.nv = @ + 3],
         LAMBDA W1 :
           Bind(AssignPath(SetAttr(SetAttr(W1, Len(W1.G), "p", ViewV(W.nv + 1)),
                                   Len(W1.G), "q", ViewV(W.nv + 2)),
                           Len(W1.G), <<"z", "p">>, ViewV(W.nv + 3)),
                LAMBDA W2 :
                  Return(Logged(Logged(W2, Event("tree", step, tid, Len(W1.G))),
                                Event("apply", step, tid, time)),
                         GroupV(Len(W1.G)))))

\* The hook of a plain task, by what it returns
CallHook(W, tid, time, step) ==
    IF W.T[tid].hook = "view" THEN Applied(W, tid, time, step)
    ELSE IF W.T[tid].hook = "tree" THEN TreeHook(W, tid, time, step)
    ELSE Return(Logged(W, Event("apply", step, tid, time)), NoneV)

\* Aggregator._get_result
AggGetResult(W, tid, vg, time, times, step) == CallHook(W, tid, time, step)

\* self.analysis(self.reference.resolve(viewgroup))
Analyse(W, tid, vg, time, step) ==
    Bind(Resolve(W, vg, W.T[tid].ref),
         LAMBDA W1 : IF W1.err # "" THEN W1
                     ELSE Applied(Logged(W1, Event("resolve", step, tid, W1.ret.i)),
                                  tid, time, step))

\* The greatest element of a non-empty times list
MaxOf(times) == CHOOSE m \in Range(times) : \A t \in Range(times) : t <= m

\* A stackwise Analysis that runs at the greatest scheduled time
AnalysisGetResult_AtMax(W, tid, vg, time, times, step) ==
    IF W.T[tid].stackwise /\ time = MaxOf(times)
    THEN Analyse(W, tid, vg, time, step)
    ELSE IF W.T[tid].stackwise THEN Return(W, NoneV)
    ELSE Analyse(W, tid, vg, time, step)

\* Analysis._get_result
AnalysisGetResult(W, tid, vg, time, times, step) ==
    IF W.T[tid].stackwise /\ time = times[Len(times)]
    THEN Analyse(W, tid, vg, time, step)
    ELSE IF W.T[tid].stackwise THEN Return(W, NoneV)
    ELSE Analyse(W, tid, vg, time, step)

GetResult(W, tid, vg, time, times, step) ==
    IF W.T[tid].cls = "Analysis"
    THEN AnalysisGetResult(W, tid, vg, time, times, step)
    ELSE AggGetResult(W, tid, vg, time, times, step)

\* Aggregator._merge_views: ret is current_val
MergeViews(W, cur, val, time) ==
    IF val.k = "view"
    THEN IF cur.k = "stack"
         THEN Return([W EXCEPT !.S[cur.i] = StackSet(@, time, val)], cur)
         ELSE Raise(W, "TypeError")
    ELSE IF cur.k = "stack" /\ val.k = "stack"
    THEN Return([W EXCEPT !.S[cur.i] = StackUpdate(@, W.S[val.i])], cur)
    ELSE IF cur.k = "group" /\ val.k = "group"
    THEN Return(Update(W, cur.i, val.i), cur)
    ELSE Raise(W, "AttributeError")

\* Aggregator.__call__ from the result of the hook on (SET mode): the value
\* is wrapped or merged, then set at the path
SetResult(W, tid, vg, time) ==
    Bind(IF ~ContainsKey(W, vg, W.T[tid].path)
         THEN IF W.ret.k # "stack" THEN NewStack(W, time, W.ret) ELSE W
         ELSE MergeViews(W, PIGet(W.G[vg].path_items, W.T[tid].path), W.ret, time),
         LAMBDA W2 : IF W2.err # "" THEN W2
                     ELSE SetPath(W2, vg, W.T[tid].path.p, W2.ret))

\* A call that returns the viewgroup of a MERGE-mode task without the update
TaskCall_MergeDropped(W, tid, vg, time, times, step) ==
    IF W.err # "" THEN W
    ELSE IF W.T[tid].path = NoKey THEN Raise(W, "UnscheduledTaskError")
    ELSE Bind(GetResult(W, tid, vg, time, times, step),
              LAMBDA W1 :
                IF W1.err # "" \/ W1.ret = NoneV THEN W1
                ELSE IF W1.T[tid].mode = "merge"
                THEN IF W1.ret.k = "group" THEN W1
                     ELSE Raise(W1, "TypeMismatchError")
                ELSE SetResult(W1, tid, vg, time))

\* The viewgroup handed back by a call that did not fail
Returned(W, vg) == IF W.err # "" THEN W ELSE Return(W, GroupV(vg))

\* A call that looks at the path after the hook has been called
TaskCall_PathAfterResult(W, tid, vg, time, times, step) ==
    IF W.err # "" THEN W
    ELSE Bind(GetResult(W, tid, vg, time, times, step),
              LAMBDA W1 :
                IF W1.err # "" THEN W1
                ELSE IF W1.T[tid].path = NoKey
                THEN Raise(W1, "UnscheduledTaskError")
                ELSE IF W1.ret = NoneV THEN Returned(W1, vg)
                ELSE IF W1.T[tid].mode = "merge"
                THEN IF W1.ret.k = "group"
                     THEN Returned(Update(W1, vg, W1.ret.i), vg)
                     ELSE Raise(W1, "TypeMismatchError")
                ELSE Returned(SetResult(W1, tid, vg, time), vg))

\* A call that tests the mode before it tests for a missing result
TaskCall_ModeBeforeNone(W, tid, vg, time, times, step) ==
    IF W.err # "" THEN W
    ELSE IF W.T[tid].path = NoKey THEN Raise(W, "UnscheduledTaskError")
    ELSE Bind(GetResult(W, tid, vg, time, times, step),
              LAMBDA W1 :
                IF W1.err # "" THEN W1
                ELSE IF W1.T[tid].mode = "merge"
                THEN IF W1.ret.k = "group"
                     THEN Returned(Update(W1, vg, W1.ret.i), vg)
                     ELSE Raise(W1, "TypeMismatchError")
                ELSE IF W1.ret = NoneV THEN Returned(W1, vg)
                ELSE Returned(SetResult(W1, tid, vg, time), vg))

\* Aggregator.__call__
TaskCall(W, tid, vg, time, times, step) ==
    IF W.err # "" THEN W
    ELSE IF W.T[tid].path = NoKey THEN Raise(W, "UnscheduledTaskError")
    ELSE Bind(GetResult(W, tid, vg, time, times, step),
              LAMBDA W1 :
                IF W1.err # "" THEN W1
                ELSE IF W1.ret = NoneV THEN Returned(W1, vg)
                ELSE IF W1.T[tid].mode = "merge"
                THEN IF W1.ret.k = "group"
                     THEN Returned(Update(W1, vg, W1.ret.i), vg)
                     ELSE Raise(W1, "TypeMismatchError")
                ELSE Returned(SetResult(W1, tid, vg, time), vg))

\* -------------------------------------------------------------- Collector
\* The ViewGroup() built once as the default of __call__'s viewgroup argument
DefaultVG == 1
\* The Collector instance (a root ViewGroup holding the task template)
Coll == 2

\* What the caller can assign into the template: c.<path> = c.collect(obj)
\* for a SET-mode hook returning a View, c.<path> = c.analyse(ref, fn,
\* stackwise=True), or c.<path> = <something that is no task>.
TaskMenu ==
    { [path |-> <<"a", "b">>, cls |-> "Aggregator", mode |-> "set",
       stackwise |-> FALSE, hook |-> "view", ref |-> <<>>],
      [path |-> <<"c">>, cls |-> "Aggregator", mode |-> "set",
       stackwise |-> FALSE, hook |-> "view", ref |-> <<>>],
      [path |-> <<"r">>, cls |-> "Analysis", mode |-> "set",
       stackwise |-> TRUE, hook |-> "view", ref |-> << <<"a", "b">> >>],
      [path |-> <<"a", "z">>, cls |-> "Other", mode |-> "set",
       stackwise |-> FALSE, hook |-> "none", ref |-> <<>>] }

\* The times lists a call is given here: strictly increasing, as in the
\* class docstring (times=[1,2,3,4,5]), of at most n steps
TimesLists(n) ==
    {t \in UNION {[1..k -> 1..MaxTime] : k \in 0..n} :
        \A j \in 1..(Len(t) - 1) : t[j] < t[j + 1]}

\* Advancing by the scheduled time itself instead of the difference
Delta_Absolute(times, j) == times[j]

\* np.diff([0]+times)[j]
Delta(times, j) == times[j] - (IF j = 1 THEN 0 ELSE times[j - 1])

IsTask(W, v) == v.k = "task" /\ W.T[v.i].cls \in {"Aggregator", "Analysis"}

\* A compile step that passes over the entries that are no tasks
RECURSIVE ScheduleFrom_SkipBad(_, _, _)
ScheduleFrom_SkipBad(W, sched, j) ==
    IF j > Len(W.G[Coll].path_items) THEN [W |-> W, sched |-> sched]
    ELSE IF ~IsTask(W, W.G[Coll].path_items[j].val)
    THEN ScheduleFrom_SkipBad(W, sched, j + 1)
    ELSE Bind([W EXCEPT !.T[W.G[Coll].path_items[j].val.i].path =
                           W.G[Coll].path_items[j].key],
              LAMBDA W1 : ScheduleFrom_SkipBad(
                             W1, Append(sched, W.G[Coll].path_items[j].val.i), j + 1))

\* A compile step that puts each task in front of those found before it
RECURSIVE ScheduleFrom_Reversed(_, _, _)
ScheduleFrom_Reversed(W, sched, j) ==
    IF j > Len(W.G[Coll].path_items) THEN [W |-> W, sched |-> sched]
    ELSE IF ~IsTask(W, W.G[Coll].path_items[j].val)
    THEN [W |-> Raise(W, "SchedulingError"), sched |-> <<>>]
    ELSE IF W.G[Coll].path_items[j].key.tuple
            /\ W.T[W.G[Coll].path_items[j].val.i].mode = "merge"
    THEN [W |-> Raise(W, "SchedulingError"), sched |-> <<>>]
    ELSE Bind([W EXCEPT !.T[W.G[Coll].path_items[j].val.i].path =
                           W.G[Coll].path_items[j].key],
              LAMBDA W1 : ScheduleFrom_Reversed(
                             W1, <<W.G[Coll].path_items[j].val.i>> \o sched, j + 1))

\* A compile step that accepts a task of MERGE mode under a path
RECURSIVE ScheduleFrom_AllowMergePath(_, _, _)
ScheduleFrom_AllowMergePath(W, sched, j) ==
    IF j > Len(W.G[Coll].path_items) THEN [W |-> W, sched |-> sched]
    ELSE IF ~IsTask(W, W.G[Coll].path_items[j].val)
    THEN [W |-> Raise(W, "SchedulingError"), sched |-> <<>>]
    ELSE Bind([W EXCEPT !.T[W.G[Coll].path_items[j].val.i].path =
                           W.G[Coll].path_items[j].key],
              LAMBDA W1 : ScheduleFrom_AllowMergePath(
                             W1, Append(sched, W.G[Coll].path_items[j].val.i), j + 1))

\* Collector._schedule_tasks: ret.sched is self._scheduled_tasks
RECURSIVE ScheduleFrom(_, _, _)
ScheduleFrom(W, sched, j) ==
    LET items == W.G[Coll].path_items IN
    IF j > Len(items) THEN [W |-> W, sched |-> sched]
    ELSE LET path == items[j].key
             task == items[j].val
         IN
         IF ~IsTask(W, task)
         THEN [W |-> Raise(W, "SchedulingError"), sched |-> <<>>]
         ELSE IF path.tuple /\ W.T[task.i].mode = "merge"
         THEN [W |-> Raise(W, "SchedulingError"), sched |-> <<>>]
         ELSE Bind([W EXCEPT !.T[task.i].path = path],
                   LAMBDA W1 : ScheduleFrom(W1, Append(sched, task.i), j + 1))

ScheduleTasks(W) == ScheduleFrom(W, <<>>, 1)

\* self.fixed = val (the property setter; never refused)
SetFixed(W, node, val) == [W EXCEPT !.G[node].fixed = val]

\* A call that compiles first and unlocks only when the compile step passed
CallBegin_CompileFirst(W, vg) ==
    Bind(ScheduleTasks(W),
         LAMBDA R : IF R.W.err # "" THEN R
                    ELSE [R EXCEPT !.W = SetFixed(SetFixed(R.W, Coll, FALSE),
                                                  vg, FALSE)])

\* A call that compiles without unlocking the two trees
CallBegin_NoUnlock(W, vg) == ScheduleTasks(W)

\* Collector.__call__ before the loop, on viewgroup vg: unlock, then compile
CallBegin(W, vg) ==
    ScheduleTasks(SetFixed(SetFixed(W, Coll, FALSE), vg, FALSE))

Here == World(G, S, T, nv, log)

NoRun == [vg |-> 0, times |-> <<>>, si |-> 0, ti |-> 0, buf |-> 0]
NoPre == [G |-> <<>>, S |-> <<>>, clock |-> 0, vg |-> 0]

Init ==
    /\ G = <<NewGroupRec("", 0), NewGroupRec("", 0)>>
    /\ S = <<>>
    /\ Refs = <<>>
    /\ type_hooks = <<>>
    /\ selected = NoEntry
    /\ T = <<>>
    /\ clock = 0
    /\ pc = "idle"
    /\ run = NoRun
    /\ scheduled = <<>>
    /\ outcome = "none"
    /\ log = <<>>
    /\ nv = 0
    /\ pre = NoPre
    /\ nruns = [calls |-> 0, steps |-> 0]
    /\ hist = <<>>

\* c.<path> = task: the caller registers an entry of the menu in the
\* template.  A refused assignment raises to the caller and changes nothing.
Register(m) ==
    /\ pc = "idle"
    /\ ~PIHas(G[Coll].path_items, PathKey(m.path))
    /\ \E W \in {AssignPath(Here, Coll, m.path,
                            IF m.cls = "Other" THEN OtherV(1)
                            ELSE TaskV(Len(T) + 1))} :
          /\ G' = W.G
          /\ T' = IF m.cls = "Other" \/ W.err # "" THEN T
                  ELSE Append(T, NewTask(m.cls, m.mode, m.stackwise, m.hook, m.ref))
    /\ UNCHANGED <<type_hooks, selected, Refs, S, clock, pc, run, scheduled, outcome, log, nv, pre, nruns, hist>>

\* A template of a SET-mode collect at (a,b) and an Analysis run at every
\* step: c.a.b = c.collect(obj); c.r = c.analyse(c.ref.a.b, fn)
HookMenu ==
    { [path |-> <<"a", "b">>, cls |-> "Aggregator", mode |-> "set",
       stackwise |-> FALSE, hook |-> "view", ref |-> <<>>],
      [path |-> <<"r">>, cls |-> "Analysis", mode |-> "set",
       stackwise |-> FALSE, hook |-> "view", ref |-> << <<"a", "b">> >>] }

\* The SET-mode collect registered next to the MERGE-mode ones
MergeMenu ==
    { [path |-> <<"a", "b">>, cls |-> "Aggregator", mode |-> "set",
       stackwise |-> FALSE, hook |-> "view", ref |-> <<>>] }

\* uuid.uuid4().hex of the successive MERGE-mode collect calls
Uuids == <<"u1", "u2", "u3">>

\* The MERGE-mode tasks made so far
MergeTasks == {t \in 1..Len(T) : T[t].mode = "merge"}

\* The paths the caller assigns the task returned by a MERGE-mode collect to
\* (<<>>: the task returned is dropped)
MergePaths == {<<>>, <<"c">>}

\* c.collect(obj) for a hook of MERGE mode returning a ViewGroup: the task is
\* stored in path_items under a uuid key, whatever the lock says, and
\* returned; the caller drops it or assigns it to a path of the template.
CollectMerge(path) ==
    /\ pc = "idle"
    /\ Cardinality(MergeTasks) < MaxMerge
    /\ \E W0 \in {[Here EXCEPT
                     !.T = Append(@, NewTask("Aggregator", "merge", FALSE,
                                             "tree", <<>>)),
                     !.G[Coll].path_items =
                         PISet(@, UuidKey(Uuids[Cardinality(MergeTasks) + 1]),
                               TaskV(Len(T) + 1))]} :
       \E W \in {IF path = <<>> THEN W0
                 ELSE AssignPath(W0, Coll, path, TaskV(Len(T) + 1))} :
          /\ G' = W.G
          /\ T' = W.T
    /\ UNCHANGED <<type_hooks, selected, Refs, S, clock, pc, run, scheduled, outcome, log, nv, pre, nruns, hist>>

\* Where the loops of __call__ stand after task ti of step si
After(times, sched, si, ti) ==
    IF ti < Len(sched) THEN [pc |-> "task", si |-> si, ti |-> ti + 1]
    ELSE IF si < Len(times) THEN [pc |-> "step", si |-> si + 1, ti |-> 0]
    ELSE [pc |-> "finish", si |-> si, ti |-> 0]

\* Collector.__call__ up to the loop: unlock both trees and compile.
\* fresh: the caller passes a new ViewGroup(); otherwise the default is used
\* (while the default object is still as built, a new one behaves the same).
Call(fresh, times) ==
    /\ pc = "idle"
    /\ nruns.calls < MaxRuns
    /\ fresh => G[DefaultVG] # NewGroupRec("", 0)
    /\ \E vg \in {IF fresh THEN Len(G) + 1 ELSE DefaultVG} :
       \E G0 \in {IF fresh THEN Append(G, NewGroupRec("", 0)) ELSE G} :
       \E R \in {CallBegin(World(G0, S, T, nv, <<>>), vg)} :
          /\ pre' = [G |-> G0, S |-> S, clock |-> clock, vg |-> vg]
          /\ G' = R.W.G
          /\ T' = R.W.T
          /\ scheduled' = R.sched
          /\ log' = <<>>
          /\ IF R.W.err # ""
             THEN /\ pc' = "idle"
                  /\ outcome' = R.W.err
                  /\ run' = [NoRun EXCEPT !.vg = vg, !.times = times]
             ELSE /\ pc' = IF times = <<>> THEN "finish" ELSE "step"
                  /\ outcome' = "running"
                  /\ run' = [vg |-> vg, times |-> times, si |-> 1, ti |-> 0,
                             buf |-> 0]
    /\ nruns' = [calls |-> nruns.calls + 1, steps |-> nruns.steps + Len(times)]
    /\ UNCHANGED <<type_hooks, selected, Refs, S, clock, nv, hist>>

\* A loop head that builds the buffer in the first step only and keeps it
\* for the steps that follow
Step_ReuseBuffer ==
    /\ pc = "step"
    /\ LET d == Delta(run.times, run.si)
           nx == After(run.times, scheduled, run.si, 0)
       IN /\ clock' = clock + d
          /\ G' = IF run.buf = 0 THEN Append(G, NewGroupRec("", 0)) ELSE G
          /\ log' = Append(log, Event("advance", run.si, d, 0))
          /\ run' = [run EXCEPT !.buf = IF run.buf = 0 THEN Len(G) + 1 ELSE run.buf,
                                !.si = nx.si, !.ti = nx.ti]
          /\ pc' = nx.pc
    /\ UNCHANGED <<type_hooks, selected, Refs, S, T, scheduled, outcome, nv, pre, nruns, hist>>

\* A loop head that sets the clock to the scheduled time of the step
Step_AbsoluteClock ==
    /\ pc = "step"
    /\ LET d == Delta(run.times, run.si)
           nx == After(run.times, scheduled, run.si, 0)
       IN /\ clock' = run.times[run.si]
          /\ G' = Append(G, NewGroupRec("", 0))
          /\ log' = Append(log, Event("advance", run.si, d, 0))
          /\ run' = [run EXCEPT !.buf = Len(G) + 1, !.si = nx.si, !.ti = nx.ti]
          /\ pc' = nx.pc
    /\ UNCHANGED <<type_hooks, selected, Refs, S, T, scheduled, outcome, nv, pre, nruns, hist>>

\* The head of one iteration of the outer loop: advance the clock by the
\* delta and build the empty buffer.
Step ==
    /\ pc = "step"
    /\ LET d == Delta(run.times, run.si)
           nx == After(run.times, scheduled, run.si, 0)
       IN /\ clock' = clock + d
          /\ G' = Append(G, NewGroupRec("", 0))
          /\ log' = Append(log, Event("advance", run.si, d, 0))
          /\ run' = [run EXCEPT !.buf = Len(G) + 1, !.si = nx.si, !.ti = nx.ti]
          /\ pc' = nx.pc
    /\ UNCHANGED <<type_hooks, selected, Refs, S, T, scheduled, outcome, nv, pre, nruns, hist>>

\* An inner loop that calls every Analysis, stackwise or not, on the viewgroup
RunTask_AnalysisOnOutput(W, tid, vg, buf, time, times, step) ==
    Bind(Logged(Logged(W, Event("read", step, time, 0)),
                Event("invoke", step, tid, 0)),
         LAMBDA W0 :
           IF W0.T[tid].cls = "Analysis"
           THEN TaskCall(W0, tid, vg, time, times, step)
           ELSE Bind(TaskCall(W0, tid, buf, time, times, step),
                     LAMBDA W1 :
                       IF W1.err # "" THEN W1
                       ELSE Bind(Logged(W1, Event("merge", step, tid, 0)),
                                 LAMBDA W2 : Update(W2, vg, buf))))

\* An inner loop that merges the buffer in the last step of the run only
RunTask_MergeLastStepOnly(W, tid, vg, buf, time, times, step) ==
    Bind(Logged(Logged(W, Event("read", step, time, 0)),
                Event("invoke", step, tid, 0)),
         LAMBDA W0 :
           IF W0.T[tid].cls = "Analysis" /\ W0.T[tid].stackwise
           THEN TaskCall(W0, tid, vg, time, times, step)
           ELSE Bind(TaskCall(W0, tid, buf, time, times, step),
                     LAMBDA W1 :
                       IF W1.err # "" \/ step # Len(times) THEN W1
                       ELSE Bind(Logged(W1, Event("merge", step, tid, 0)),
                                 LAMBDA W2 : Update(W2, vg, buf))))

\* An inner loop that merges the buffer once, after the last task of the step
RunTask_MergeAtStepEnd(W, tid, vg, buf, time, times, step) ==
    Bind(Logged(Logged(W, Event("read", step, time, 0)),
                Event("invoke", step, tid, 0)),
         LAMBDA W0 :
           IF W0.T[tid].cls = "Analysis" /\ W0.T[tid].stackwise
           THEN TaskCall(W0, tid, vg, time, times, step)
           ELSE Bind(TaskCall(W0, tid, buf, time, times, step),
                     LAMBDA W1 :
                       IF W1.err # "" \/ tid # scheduled[Len(scheduled)] THEN W1
                       ELSE Bind(Logged(W1, Event("merge", step, tid, 0)),
                                 LAMBDA W2 : Update(W2, vg, buf))))

\* One iteration of the inner loop: read the time, call the task, and for a
\* task that is no stackwise Analysis merge the buffer into the viewgroup.
RunTask(W, tid, vg, buf, time, times, step) ==
    Bind(Logged(Logged(W, Event("read", step, time, 0)),
                Event("invoke", step, tid, 0)),
         LAMBDA W0 :
           IF W0.T[tid].cls = "Analysis" /\ W0.T[tid].stackwise
           THEN TaskCall(W0, tid, vg, time, times, step)
           ELSE Bind(TaskCall(W0, tid, buf, time, times, step),
                     LAMBDA W1 :
                       IF W1.err # "" THEN W1
                       ELSE Bind(Logged(W1, Event("merge", step, tid, 0)),
                                 LAMBDA W2 : Update(W2, vg, buf))))

Invoke ==
    /\ pc = "task"
    /\ \E W \in {RunTask(Here, scheduled[run.ti], run.vg, run.buf, clock,
                         run.times, run.si)} :
       \E nx \in {After(run.times, scheduled, run.si, run.ti)} :
          /\ G' = W.G
          /\ S' = W.S
          /\ T' = W.T
          /\ nv' = W.nv
          /\ log' = W.log
          /\ IF W.err # ""
             THEN /\ pc' = "idle"
                  /\ outcome' = W.err
                  /\ run' = run
             ELSE /\ pc' = nx.pc
                  /\ outcome' = outcome
                  /\ run' = [run EXCEPT !.si = nx.si, !.ti = nx.ti]
    /\ UNCHANGED <<type_hooks, selected, Refs, clock, scheduled, pre, nruns, hist>>

\* The end of __call__: lock both trees and return the viewgroup
Finish ==
    /\ pc = "finish"
    /\ G' = SetFixed(SetFixed(Here, Coll, TRUE), run.vg, TRUE).G
    /\ pc' = "idle"
    /\ outcome' = "ok"
    /\ UNCHANGED <<type_hooks, selected, Refs, S, T, clock, run, scheduled, log, nv, pre, nruns, hist>>

Next ==
    \/ \E m \in TaskMenu : Register(m)
    \/ \E fresh \in BOOLEAN :
         \E times \in TimesLists(MaxSteps - nruns.steps) : Call(fresh, times)
    \/ Step
    \/ Invoke
    \/ Finish

Spec == Init /\ [][Next]_vars

\* SpecHooks: the Collector with a SET-mode collect and an Analysis run at
\* every step.
NextHooks ==
    \/ \E m \in HookMenu : Register(m)
    \/ \E fresh \in BOOLEAN :
         \E times \in TimesLists(MaxSteps - nruns.steps) : Call(fresh, times)
    \/ Step
    \/ Invoke
    \/ Finish

SpecHooks == Init /\ [][NextHooks]_vars

\* SpecMerge: the Collector with a SET-mode collect and MERGE-mode collects.
NextMerge ==
    \/ \E m \in MergeMenu : Register(m)
    \/ \E path \in MergePaths : CollectMerge(path)
    \/ \E fresh \in BOOLEAN :
         \E times \in TimesLists(MaxSteps - nruns.steps) : Call(fresh, times)
    \/ Step
    \/ Invoke
    \/ Finish

SpecMerge == Init /\ [][NextMerge]_vars

\* ------------------------------------------------------ ViewGroup alone
\* SpecTimes: the Collector with a SET-mode collect at (a,b) and a stackwise
\* Analysis of it, run over times lists in any order, repeats included.
StackMenu ==
    { [path |-> <<"a", "b">>, cls |-> "Aggregator", mode |-> "set",
       stackwise |-> FALSE, hook |-> "view", ref |-> <<>>],
      [path |-> <<"r">>, cls |-> "Analysis", mode |-> "set",
       stackwise |-> TRUE, hook |-> "view", ref |-> << <<"a", "b">> >>] }

AnyTimesLists(n) == UNION {[1..k -> 1..MaxTime] : k \in 0..n}

NextTimes ==
    \/ \E m \in StackMenu : Register(m)
    \/ \E fresh \in BOOLEAN :
         \E times \in AnyTimesLists(MaxSteps - nruns.steps) : Call(fresh, times)
    \/ Step
    \/ Invoke
    \/ Finish

SpecTimes == Init /\ [][NextTimes]_vars

\* SpecAlias: the Collector with one SET-mode collect whose task the caller
\* may also assign at a second path: t = c.collect(obj); c.a.b = t; c.c = t
AliasPaths == {<<"c">>}

\* c.<path> = t for a task t made before
RegisterAlias(t, path) ==
    /\ pc = "idle"
    /\ ~PIHas(G[Coll].path_items, PathKey(path))
    /\ \E W \in {AssignPath(Here, Coll, path, TaskV(t))} :
          /\ G' = W.G
    /\ UNCHANGED <<type_hooks, selected, Refs, S, T, clock, pc, run, scheduled, outcome,
                   log, nv, pre, nruns, hist>>

NextAlias ==
    \/ \E m \in MergeMenu : Register(m)
    \/ \E t \in 1..Len(T) : \E path \in AliasPaths : RegisterAlias(t, path)
    \/ \E fresh \in BOOLEAN :
         \E times \in TimesLists(MaxSteps - nruns.steps) : Call(fresh, times)
    \/ Step
    \/ Invoke
    \/ Finish

SpecAlias == Init /\ [][NextAlias]_vars

\* SpecTree: two root ViewGroups (the objects 1 and 2 of Init) under
\* sequences of leaf assignments, child accesses, merges and locks.
Roots == {DefaultVG, Coll}

TreePaths == {<<"a">>, <<"a", "b">>, <<"c">>}

\* The expression node.<path>: one attribute access per label
RECURSIVE AccessPath(_, _, _)
AccessPath(W, node, path) ==
    IF W.err # "" \/ path = <<>> THEN W
    ELSE Bind(GetAttr(W, node, path[1]),
              LAMBDA W1 : IF W1.err # "" \/ Len(path) = 1 THEN W1
                          ELSE IF W1.ret.k # "group" THEN Raise(W1, "AttributeError")
                          ELSE AccessPath(W1, W1.ret.i, Tail(path)))

\* What an operation of SpecTree leaves in hist
Op(op, root, path, val, err) ==
    [op |-> op, root |-> root, path |-> path, val |-> val, err |-> err]

TreeStep(op, root, path, val, W) ==
    /\ G' = W.G
    /\ S' = IF W.err # "" THEN S ELSE W.S
    /\ hist' = Append(hist, Op(op, root, path, val, W.err))
    /\ pre' = [G |-> G, S |-> S, clock |-> clock, vg |-> root]
    /\ UNCHANGED <<type_hooks, selected, Refs, T, clock, pc, run, scheduled, outcome, log, nv, nruns>>

\* The value assigned by the n-th operation: a new Stack {n: View n}
NewLeaf(n) == NewStack(Here, n, ViewV(n))

\* root.<path> = Stack
TreeAssign(root, path) ==
    /\ Len(hist) < MaxOps
    /\ \E W0 \in {NewLeaf(Len(hist) + 1)} :
       \E W \in {AssignPath(W0, root, path, W0.ret)} :
          TreeStep("assign", root, path, W0.ret, W)

\* root.set_path(path, Stack)
TreeSetPath(root, path) ==
    /\ Len(hist) < MaxOps
    /\ \E W0 \in {NewLeaf(Len(hist) + 1)} :
       \E W \in {SetPath(W0, root, path, W0.ret)} :
          TreeStep("set_path", root, path, W0.ret, W)

\* root.<path> evaluated: missing nodes are created on the way
TreeAccess(root, path) ==
    /\ Len(hist) < MaxOps
    /\ \E W \in {AccessPath(Here, root, path)} :
          TreeStep("access", root, path, NoneV, W)

\* self.update(other)
TreeUpdate(self, other) ==
    /\ Len(hist) < MaxOps
    /\ self # other
    /\ \E W \in {Update(Here, self, other)} :
          TreeStep("update", self, <<>>, GroupV(other), W)

\* A structural copy of every object of the heaps, appended to them: the
\* copy of ViewGroup n is ViewGroup n + Len(G), the copy of Stack n is
\* Stack n + Len(S), with the fields of ViewGroup.__init__ duplicated.
ShiftV(v, ng, ns) ==
    IF v.k = "group" THEN GroupV(v.i + ng)
    ELSE IF v.k = "stack" THEN StackV(v.i + ns)
    ELSE v

CopyGroupRec(r, ng, ns) ==
    [parent |-> IF r.parent = 0 THEN 0 ELSE r.parent + ng,
     label |-> r.label,
     children |-> r.children,
     slots |-> [l \in Labels |-> ShiftV(r.slots[l], ng, ns)],
     path_items |-> [j \in 1..Len(r.path_items) |->
                       [key |-> r.path_items[j].key,
                        val |-> ShiftV(r.path_items[j].val, ng, ns)]],
     fixed |-> r.fixed]

CopyHeap(W) ==
    [W EXCEPT !.G = W.G \o [n \in 1..Len(W.G) |->
                              CopyGroupRec(W.G[n], Len(W.G), Len(W.S))],
              !.S = W.S \o W.S]

\* root.update(copy), copy a structural copy of root
TreeUpdateCopy(root) ==
    /\ Len(hist) < MaxOps
    /\ \E W \in {Update(CopyHeap(Here), root, root + Len(G))} :
          /\ G' = W.G
          /\ S' = W.S
          /\ hist' = Append(hist, Op("update_copy", root, <<>>,
                                     GroupV(root + Len(G)), W.err))
          /\ pre' = [G |-> G, S |-> S, clock |-> clock, vg |-> root]
          /\ UNCHANGED <<type_hooks, selected, Refs, T, clock, pc, run, scheduled, outcome, log, nv, nruns>>

\* root.fixed = True
TreeFix(root) ==
    /\ Len(hist) < MaxOps
    /\ ~G[root].fixed
    /\ TreeStep("fix", root, <<>>, NoneV, SetFixed(Here, root, TRUE))

NextTree ==
    \/ \E root \in Roots : \E path \in TreePaths : TreeAssign(root, path)
    \/ \E root \in Roots : \E path \in TreePaths : TreeSetPath(root, path)
    \/ \E root \in Roots : \E path \in TreePaths : TreeAccess(root, path)
    \/ \E self \in Roots : \E other \in Roots : TreeUpdate(self, other)
    \/ \E root \in Roots : TreeUpdateCopy(root)
    \/ \E root \in Roots : TreeFix(root)

SpecTree == Init /\ [][NextTree]_vars

\* ------------------------------------------------------ tasks called alone
\* SpecTask: the tasks of a template called by hand, task(viewgroup, time,
\* [time]), before and after the compile step has given them a path.
\* The template: a SET-mode collect of a View at (a,b), a SET-mode collect
\* whose hook returns None at c, and a MERGE-mode collect whose hook returns
\* None.
DirectMenu ==
    { [path |-> <<"a", "b">>, cls |-> "Aggregator", mode |-> "set",
       stackwise |-> FALSE, hook |-> "view", ref |-> <<>>],
      [path |-> <<"c">>, cls |-> "Aggregator", mode |-> "set",
       stackwise |-> FALSE, hook |-> "none", ref |-> <<>>] }

\* c.collect(obj) for a hook of MERGE mode that returns None: the task is
\* stored under a uuid key and the caller keeps it
CollectMergeNull ==
    /\ pc = "idle"
    /\ Cardinality(MergeTasks) < MaxMerge
    /\ T' = Append(T, NewTask("Aggregator", "merge", FALSE, "none", <<>>))
    /\ G' = [G EXCEPT ![Coll].path_items =
                         PISet(@, UuidKey(Uuids[Cardinality(MergeTasks) + 1]),
                               TaskV(Len(T) + 1))]
    /\ UNCHANGED <<type_hooks, selected, Refs, S, clock, pc, run, scheduled, outcome,
                   log, nv, pre, nruns, hist>>

\* c._schedule_tasks() alone: every task of the template gets its path
Schedule ==
    /\ pc = "idle"
    /\ \E R \in {ScheduleTasks(Here)} :
          /\ T' = R.W.T
          /\ scheduled' = R.sched
          /\ outcome' = IF R.W.err # "" THEN R.W.err ELSE "ok"
    /\ UNCHANGED <<type_hooks, selected, Refs, G, S, clock, pc, run, log, nv, pre, nruns, hist>>

\* The trees a task is called on by hand
TaskVGs == {DefaultVG}

\* The times a task is called with by hand
DirectTimes == {1, MaxTime}

\* task(vg, time, [time]) called by hand; hist keeps the path of the task,
\* the value returned and the exception
DirectInvoke(t, vg, time) ==
    /\ pc = "idle"
    /\ Len(hist) < MaxCalls
    /\ \E W \in {TaskCall(Here, t, vg, time, <<time>>, 0)} :
          /\ G' = W.G
          /\ S' = W.S
          /\ T' = W.T
          /\ nv' = W.nv
          /\ log' = W.log
          /\ hist' = Append(hist, Op("invoke", vg, T[t].path.p,
                                     IF W.err # "" THEN NoneV ELSE W.ret, W.err))
    /\ pre' = [G |-> G, S |-> S, clock |-> clock, vg |-> vg]
    /\ UNCHANGED <<type_hooks, selected, Refs, clock, pc, run, scheduled, outcome, nruns>>

NextTask ==
    \/ \E m \in DirectMenu : Register(m)
    \/ CollectMergeNull
    \/ Schedule
    \/ \E t \in 1..Len(T) : \E vg \in TaskVGs : \E time \in DirectTimes :
         DirectInvoke(t, vg, time)

SpecTask == Init /\ [][NextTask]_vars

\* ------------------------------------------------------------- type hooks
\* SpecSelect: hooks registered for types with Collector.for_type and
\* selected for objects with Collector.select_hook. The classes are
\*     object <- A <- B, A <- C, (B, C) <- D
\* with their method resolution orders, most derived first.
Classes == {"object", "A", "B", "C", "D"}

Mro(c) ==
    IF c = "A" THEN <<"A", "object">>
    ELSE IF c = "B" THEN <<"B", "A", "object">>
    ELSE IF c = "C" THEN <<"C", "A", "object">>
    ELSE IF c = "D" THEN <<"D", "B", "C", "A", "object">>
    ELSE <<"object">>

\* issubclass(c, tp) for these classes
IsSubclass(c, tp) == InSeq(tp, Mro(c))

\* The hooks registered, each with its mode
HookFns == {<<"h1", "set">>, <<"h2", "set">>, <<"h3", "merge">>}

\* An entry of type_hooks: (hookfn, mode, referencer)
Entry(hookfn, mode) == [hookfn |-> hookfn, mode |-> mode, referencer |-> "none"]

\* The first class of a method resolution order that is among the matches
RECURSIVE FirstInMro(_, _, _)
\* A search that starts from the least derived class
FirstInMro_LeastDerived(chain, matches, j) ==
    IF j > Len(chain) THEN ""
    ELSE IF chain[Len(chain) + 1 - j] \in matches THEN chain[Len(chain) + 1 - j]
    ELSE FirstInMro(chain, matches, j + 1)

FirstInMro(chain, matches, j) ==
    IF j > Len(chain) THEN ""
    ELSE IF chain[j] \in matches THEN chain[j]
    ELSE FirstInMro(chain, matches, j + 1)

\* Collector.select_hook for an object whose class (or the object itself,
\* when it is a class) is c
SelectHookOf(hooks, c) ==
    LET matches == {tp \in DOMAIN hooks : IsSubclass(c, tp)}
        first == FirstInMro(Mro(c), matches, 1)
    IN IF matches = {} THEN [err |-> "NoHookFoundError", entry |-> NoEntry]
       ELSE IF first # "" THEN [err |-> "", entry |-> hooks[first]]
       ELSE [err |-> "Exception", entry |-> NoEntry]

\* Collector.for_type(tp, hookfn, mode=mode)
ForType(tp, hookfn, mode) ==
    /\ type_hooks' = [t \in (DOMAIN type_hooks) \cup {tp} |->
                        IF t = tp THEN Entry(hookfn, mode) ELSE type_hooks[t]]
    /\ UNCHANGED <<G, S, T, Refs, selected, clock, pc, run, scheduled, outcome, log, nv,
                   pre, nruns, hist>>

\* Collector.select_hook(obj), obj an instance of c or the class c
SelectHook(c) ==
    /\ selected' = SelectHookOf(type_hooks, c).entry
    /\ outcome' = IF SelectHookOf(type_hooks, c).err = "" THEN "ok"
                  ELSE SelectHookOf(type_hooks, c).err
    /\ UNCHANGED <<G, S, T, Refs, type_hooks, clock, pc, run, scheduled, log, nv, pre,
                   nruns, hist>>

NextSelect ==
    \/ \E tp \in Classes : \E h \in HookFns : ForType(tp, h[1], h[2])
    \/ \E c \in Classes : SelectHook(c)

SpecSelect == Init /\ [][NextSelect]_vars

\* ---------------------------------------------------------------- ViewRef
\* SpecRef: ViewRef objects (the heap Refs) built by ViewRef(), attribute
\* access, slicing and *, and resolved against the tree DefaultVG, which
\* receives leaves by assignment.
\* The paths of the references made: a, a.b and c
RefPaths == {<<"a">>, <<"a", "b">>, <<"c">>}

\* The paths assigned in the tree the references are resolved in
RefTreePaths == TreePaths \cup {<<"a", "c">>}
Slices == {"s1", "s2"}
NoSlice == "none"

\* ViewRef.__init__ with its defaults: specification [], slices {}
NewRef == [spec |-> <<>>, slices |-> {}]

\* self.slices.get(ref, None); a dict is a set of key/value entries
SliceOf(slices, ref) ==
    IF \E e \in slices : e.key = ref
    THEN (CHOOSE e \in slices : e.key = ref).val
    ELSE NoSlice

\* dict(d1, **d2): the entries of d2, and those of d1 under other keys
DictMerge(d1, d2) == {e \in d1 : \A f \in d2 : f.key # e.key} \cup d2

\* ViewRef.resolve: each specification resolved with _resolve_ref, sliced
\* by the slice stored under it, and overlaid with * in list order. The
\* result is the list of the layers of the overlay, each the object found
\* and the slice applied to it. A ViewGroup cannot be sliced by a slice
\* (KeyError) and has no * (TypeError).
RECURSIVE ResolveSlicedFrom(_, _, _, _)
ResolveSlicedFrom(W, ref, j, acc) ==
    IF j > Len(ref.spec) THEN [err |-> "", layers |-> acc, info |-> NoneV]
    ELSE LET W1 == ResolveRef(W, GroupV(DefaultVG), ref.spec[j])
             slc == SliceOf(ref.slices, ref.spec[j])
         IN IF W1.err # "" THEN [err |-> W1.err, layers |-> <<>>, info |-> W1.ret]
            ELSE IF W1.ret.k = "group" /\ slc # NoSlice
            THEN [err |-> "KeyError", layers |-> <<>>, info |-> NoneV]
            ELSE IF W1.ret.k = "group" /\ Len(ref.spec) > 1
            THEN [err |-> "TypeError", layers |-> <<>>, info |-> NoneV]
            ELSE ResolveSlicedFrom(W, ref, j + 1,
                                   Append(acc, [obj |-> W1.ret, slc |-> slc]))

ResolveSliced(W, ref) == ResolveSlicedFrom(W, ref, 1, <<>>)

\* x * y for two resolved objects: the layers of x, then those of y
Overlaid(x, y) ==
    IF x.err # "" THEN x
    ELSE IF y.err # "" THEN y
    ELSE IF \E l \in Range(x.layers) \cup Range(y.layers) : l.obj.k = "group"
    THEN [err |-> "TypeError", layers |-> <<>>, info |-> NoneV]
    ELSE [err |-> "", layers |-> x.layers \o y.layers, info |-> NoneV]

\* ViewRef.__mul__: an exception for one object on both sides; the slices
\* merged by dict(self.slices, **other.slices), which an interpreter that
\* takes only string keywords refuses when other.slices has an entry.
MulOutcomes(A, B, same) ==
    IF same THEN {[err |-> "Exception", ref |-> A]}
    ELSE {[err |-> "", ref |-> [spec |-> A.spec \o B.spec,
                                slices |-> DictMerge(A.slices, B.slices)]]}
         \cup (IF B.slices # {} THEN {[err |-> "TypeError", ref |-> A]} ELSE {})

\* An attribute access that extends the last specification of a composed
\* reference
GetAttrRef_ExtendLast(ref, label) ==
    IF Len(ref.spec) = 0
    THEN [err |-> "", ref |-> [ref EXCEPT !.spec = <<<<label>>>>]]
    ELSE [err |-> "",
          ref |-> [ref EXCEPT !.spec[Len(ref.spec)] = Append(@, label)]]

\* ViewRef.__getattr__ on a ViewRef value, for a label that is no attribute
\* of the object and does not start with an underscore: an exception for a
\* composed reference, else the label starts or extends the one
\* specification
GetAttrRef(ref, label) ==
    IF Len(ref.spec) > 1 THEN [err |-> "AttributeError", ref |-> ref]
    ELSE IF Len(ref.spec) = 0
    THEN [err |-> "", ref |-> [ref EXCEPT !.spec = <<<<label>>>>]]
    ELSE [err |-> "", ref |-> [ref EXCEPT !.spec = <<Append(ref.spec[1], label)>>]]

RECURSIVE GetAttrsRef(_, _)
GetAttrsRef(ref, path) ==
    IF path = <<>> THEN ref
    ELSE GetAttrsRef(GetAttrRef(ref, path[1]).ref, Tail(path))

\* ViewRef.__getitem__: the index stored under every specification
GetItemRef(ref, index) ==
    [ref EXCEPT !.slices =
        {e \in @ : ~InSeq(e.key, ref.spec)}
        \cup {[key |-> ref.spec[j], val |-> index] : j \in 1..Len(ref.spec)}]

\* The statement r = ViewRef().<path> (index = NoSlice) or
\* r = ViewRef().<path>[index]
RefMake(path, index) ==
    /\ Len(Refs) < MaxRefs
    /\ Refs' = Append(Refs, IF index = NoSlice THEN GetAttrsRef(NewRef, path)
                            ELSE GetItemRef(GetAttrsRef(NewRef, path), index))
    /\ outcome' = "ok"
    /\ UNCHANGED <<type_hooks, selected, G, S, T, clock, pc, run, scheduled, log, nv, pre, nruns, hist>>

\* a * b: ViewRef.__mul__
RefMul(a, b) ==
    /\ Len(Refs) < MaxRefs
    /\ \E o \in MulOutcomes(Refs[a], Refs[b], a = b) :
          /\ Refs' = IF o.err = "" THEN Append(Refs, o.ref) ELSE Refs
          /\ outcome' = IF o.err = "" THEN "ok" ELSE o.err
    /\ UNCHANGED <<type_hooks, selected, G, S, T, clock, pc, run, scheduled, log, nv, pre, nruns, hist>>

\* r.resolve(g) for the tree g: no object changes; the call returns or
\* ends with an exception
RefResolve(r) ==
    /\ outcome' = IF ResolveSliced(Here, Refs[r]).err = "" THEN "ok"
                  ELSE ResolveSliced(Here, Refs[r]).err
    /\ UNCHANGED <<type_hooks, selected, G, S, T, Refs, clock, pc, run, scheduled, log, nv, pre, nruns, hist>>

NextRef ==
    \/ \E path \in TreePaths : TreeAssign(DefaultVG, path)
    \/ \E path \in RefPaths : \E index \in Slices \cup {NoSlice} : RefMake(path, index)
    \/ \E a \in 1..Len(Refs) : \E b \in 1..Len(Refs) : RefMul(a, b)

SpecRef == Init /\ [][NextRef]_vars

\* SpecExtend: ViewRefs made empty or with one label, extended in place by
\* attribute access and composed.
ExtPaths == {<<>>, <<"a">>}
ExtLabels == {"a", "b"}

\* A ViewRef object as a value
RefV(r) == [k |-> "ref", i |-> r]

\* r.<label> evaluated: the object r is changed in place and returned; hist
\* keeps the label, the object returned and the exception
RefGetAttr(r, label) ==
    /\ Len(hist) < MaxOps
    /\ \E o \in {GetAttrRef(Refs[r], label)} :
          /\ Refs' = [Refs EXCEPT ![r] = o.ref]
          /\ hist' = Append(hist, Op("getattr", r, <<label>>,
                                     IF o.err = "" THEN RefV(r) ELSE NoneV, o.err))
          /\ outcome' = IF o.err = "" THEN "ok" ELSE o.err
    /\ UNCHANGED <<type_hooks, selected, G, S, T, clock, pc, run, scheduled, log, nv, pre, nruns>>

NextExtend ==
    \/ \E path \in ExtPaths : RefMake(path, NoSlice)
    \/ \E r \in 1..Len(Refs) : \E label \in ExtLabels : RefGetAttr(r, label)
    \/ \E a \in 1..Len(Refs) : \E b \in 1..Len(Refs) : RefMul(a, b)

SpecExtend == Init /\ [][NextExtend]_vars

\* SpecSlice: ViewRefs extended and sliced in place, and composed.
\* r[index] evaluated: the object r is changed in place and returned
RefGetItem(r, index) ==
    /\ Len(hist) < MaxOps
    /\ Refs' = [Refs EXCEPT ![r] = GetItemRef(Refs[r], index)]
    /\ hist' = Append(hist, Op("getitem", r, <<index>>, RefV(r), ""))
    /\ outcome' = "ok"
    /\ UNCHANGED <<type_hooks, selected, G, S, T, clock, pc, run, scheduled, log, nv, pre, nruns>>

NextSlice ==
    \/ \E path \in ExtPaths : RefMake(path, NoSlice)
    \/ \E r \in 1..Len(Refs) : \E label \in ExtLabels : RefGetAttr(r, label)
    \/ \E r \in 1..Len(Refs) : \E index \in Slices : RefGetItem(r, index)
    \/ \E a \in 1..Len(Refs) : \E b \in 1..Len(Refs) : RefMul(a, b)

SpecSlice == Init /\ [][NextSlice]_vars

\* SpecResolve: unsliced ViewRefs of one path resolved against the tree
\* DefaultVG, which receives leaves at a, a.b, a.c and c.
ResolvePaths == {<<"a", "b", "c">>, <<"a", "b">>, <<"c">>}

NextResolve ==
    \/ \E path \in RefTreePaths : TreeAssign(DefaultVG, path)
    \/ \E path \in ResolvePaths : RefMake(path, NoSlice)
    \/ \E r \in 1..Len(Refs) : RefResolve(r)

SpecResolve == Init /\ [][NextResolve]_vars

\* SpecLookup: ViewRefs of one path and their compositions resolved, once
\* and again, against the tree DefaultVG while it receives leaves.
\* r.resolve(g): the objects are those the walks and the overlay leave;
\* hist keeps the handle, what the call gives and the exception
RefLookup(r) ==
    /\ Len(hist) < MaxOps
    /\ \E W \in {Resolve(Here, DefaultVG, Refs[r].spec)} :
          /\ G' = W.G
          /\ S' = W.S
          /\ nv' = W.nv
          /\ log' = W.log
          /\ hist' = Append(hist, Op("resolve", r, <<>>,
                                     ResolveSliced(Here, Refs[r]), W.err))
          /\ outcome' = IF W.err # "" THEN W.err ELSE "ok"
    /\ pre' = [G |-> G, S |-> S, clock |-> clock, vg |-> DefaultVG]
    /\ UNCHANGED <<type_hooks, selected, Refs, T, clock, pc, run, scheduled, nruns>>

\* The paths of the leaves and of the handles of SpecLookup
LookupPaths == {<<"a", "b">>, <<"a", "c">>}

NextLookup ==
    \/ \E path \in LookupPaths : TreeAssign(DefaultVG, path)
    \/ \E path \in LookupPaths : RefMake(path, NoSlice)
    \/ \E a \in 1..Len(Refs) : \E b \in 1..Len(Refs) : RefMul(a, b)
    \/ \E r \in 1..Len(Refs) : RefLookup(r)

SpecLookup == Init /\ [][NextLookup]_vars

\* ------------------------------------------------------------ the claims
\* The last call of the Collector has returned normally
RunDone == pc = "idle" /\ outcome = "ok"

EmptyTree(g, n) == g[n].children = <<>> /\ g[n].path_items = <<>>

\* The root of the tree a node hangs in, by its parent links
RECURSIVE RootOf(_, _)
RootOf(g, n) == IF g[n].parent = 0 THEN n ELSE RootOf(g, g[n].parent)

\* A node without its lock
Contents(rec) == [rec EXCEPT !.fixed = FALSE]

\* The Stack objects held by the tree below node n (fuel bounds the descent)
RECURSIVE StacksBelow(_, _, _)
StacksBelow(g, n, fuel) ==
    IF fuel = 0 THEN {}
    ELSE UNION {IF g[n].slots[l].k = "stack" THEN {g[n].slots[l].i}
                ELSE IF g[n].slots[l].k = "group"
                     THEN StacksBelow(g, g[n].slots[l].i, fuel - 1)
                     ELSE {} : l \in Labels}

\* View v is held by a Stack of the tree of root n or of its flat index
Holds(g, s, n, v) ==
    \E k \in StacksBelow(g, n, Len(g))
            \cup {g[n].path_items[j].val.i :
                    j \in {x \in 1..Len(g[n].path_items) :
                             g[n].path_items[x].val.k = "stack"}} :
       \E t \in DOMAIN s[k] : s[k][t] = ViewV(v)

IsSetTask(tid) == T[tid].cls = "Aggregator" /\ T[tid].mode = "set"
IsStackwise(tid) == T[tid].cls = "Analysis" /\ T[tid].stackwise

\* The template holds one entry only: a SET task at (a,b) returning a View
OnlySetTaskAB(g) ==
    /\ Len(g[Coll].path_items) = 1
    /\ g[Coll].path_items[1].key = PathKey(<<"a", "b">>)
    /\ g[Coll].path_items[1].val.k = "task"
    /\ IsSetTask(g[Coll].path_items[1].val.i)
    /\ T[g[Coll].path_items[1].val.i].hook = "view"

C1Case ==
    /\ RunDone
    /\ pre.clock = 0
    /\ EmptyTree(pre.G, pre.vg)
    /\ OnlySetTaskAB(pre.G)

\* C1: with the clock at 0, an empty output tree and one SET task at (a,b)
\* returning a snapshot at every step, a completed run leaves at a.b a series
\* with exactly one entry per scheduled time, keyed by that time and holding
\* the snapshot made at that step (nothing at a.b when times is empty).
C1_SetTaskSeries ==
    C1Case =>
      LET leaf == Walk(G, GroupV(run.vg), <<"a", "b">>) IN
      IF run.times = <<>> THEN leaf = NoneV
      ELSE /\ leaf.k = "stack"
           /\ DOMAIN S[leaf.i] = Range(run.times)
           /\ \A j \in 1..Len(run.times) :
                \E x \in 1..Len(log) :
                   /\ log[x].e = "apply"
                   /\ log[x].s = j
                   /\ S[leaf.i][run.times[j]] = ViewV(log[x].v)

C1_Witness ==
    /\ C1Case
    /\ run.times = <<1, 2, 3>>
    /\ Walk(G, GroupV(run.vg), <<"a", "b">>).k = "stack"
    /\ DOMAIN S[Walk(G, GroupV(run.vg), <<"a", "b">>).i] = {1, 2, 3}

\* C3: after a completed run of two or more steps, the flat-index entry of
\* every SET task path is the leaf reached by walking the output tree.
C3_FlatIndexIsLeaf ==
    (RunDone /\ Len(run.times) >= 2) =>
      \A j \in 1..Len(scheduled) :
        IsSetTask(scheduled[j]) =>
          /\ PIHas(G[run.vg].path_items, T[scheduled[j]].path)
          /\ PIGet(G[run.vg].path_items, T[scheduled[j]].path)
               = Walk(G, GroupV(run.vg), T[scheduled[j]].path.p)

\* The template a call found holds an entry that is no task
HasBadEntry(g) ==
    \E j \in 1..Len(g[Coll].path_items) :
       ~(g[Coll].path_items[j].val.k = "task")

\* Outside the template, every object the call found is as it was, locks apart
OutContentsKept ==
    /\ S = pre.S
    /\ \A n \in 1..Len(pre.G) :
         RootOf(pre.G, n) # Coll => Contents(G[n]) = Contents(pre.G[n])

\* C6: a call whose template holds an entry that is no task ends with the
\* scheduling error before any step: no transform applied, no time read,
\* the clock not advanced, nothing compiled, and the contents of the output
\* tree as before the call, wherever the bad entry stands.
C6_BadEntryAbortsBeforeSteps ==
    (pre.vg # 0 /\ HasBadEntry(pre.G)) =>
      /\ pc = "idle"
      /\ outcome = "SchedulingError"
      /\ log = <<>>
      /\ clock = pre.clock
      /\ scheduled = <<>>
      /\ OutContentsKept

C6_Witness ==
    /\ pre.vg # 0
    /\ outcome = "SchedulingError"
    /\ Len(pre.G[Coll].path_items) >= 2
    /\ pre.G[Coll].path_items[1].val.k = "task"
    /\ ~EmptyTree(pre.G, pre.vg)
    /\ OutContentsKept

\* C7 as claimed: when the compile step fails, the output tree is exactly as
\* before the call, its lock included.
C7_OutputUntouched ==
    (pc = "idle" /\ outcome = "SchedulingError") =>
      /\ OutContentsKept
      /\ G[pre.vg].fixed = pre.G[pre.vg].fixed

\* C7 amended: when the compile step fails, the contents of the output tree
\* are as before the call and its lock is cleared, whatever it was.
C7_OutputOnlyUnlocked ==
    (pc = "idle" /\ outcome = "SchedulingError") =>
      /\ OutContentsKept
      /\ ~G[pre.vg].fixed

C7_Witness ==
    /\ pc = "idle"
    /\ outcome = "SchedulingError"
    /\ pre.G[pre.vg].fixed
    /\ ~G[pre.vg].fixed
    /\ OutContentsKept

\* The clock events (advance, read) of the log, in order
ClockLog == SelectSeq(log, LAMBDA ev : ev.e \in {"advance", "read"})

\* Step j of a run from clock c0 over k tasks: one advance, then k reads
RECURSIVE Reads(_, _, _)
Reads(j, time, k) ==
    IF k = 0 THEN <<>>
    ELSE <<Event("read", j, time, 0)>> \o Reads(j, time, k - 1)

RECURSIVE ClockLogFrom(_, _, _, _)
ClockLogFrom(times, c0, k, j) ==
    IF j > Len(times) THEN <<>>
    ELSE <<Event("advance", j, times[j] - (IF j = 1 THEN 0 ELSE times[j - 1]), 0)>>
         \o Reads(j, c0 + times[j], k)
         \o ClockLogFrom(times, c0, k, j + 1)

AppliedAt(tid) ==
    SelectSeq(log, LAMBDA ev : ev.e = "apply" /\ ev.a = tid)

\* C9: in every completed run over a non-empty times list, a stackwise
\* Analysis applies its transform exactly once, in the last step.
C9_StackwiseOnceAtLastStep ==
    (RunDone /\ run.times # <<>>) =>
      \A j \in 1..Len(scheduled) :
        IsStackwise(scheduled[j]) =>
          /\ Len(AppliedAt(scheduled[j])) = 1
          /\ AppliedAt(scheduled[j])[1].s = Len(run.times)

\* Task ti of the step under way is about to be invoked; the tasks before it
\* have been
MidStep == pc = "task" /\ run.ti > 1

\* The Views made so far in the step under way by tasks that are no
\* stackwise Analysis
StepViews ==
    {log[x].v : x \in {y \in 1..Len(log) :
                         /\ log[y].e = "apply"
                         /\ log[y].s = run.si
                         /\ ~IsStackwise(log[y].a)}}

\* C10 as claimed: while the tasks of a step are being invoked, the output
\* tree holds no result made in that step by a task that is no stackwise
\* Analysis (one merge, after the last task).
C10_NoResultBeforeStepEnd ==
    MidStep => \A v \in StepViews : ~Holds(G, S, run.vg, v)

\* C10 amended: the buffer is merged into the output tree after each task
\* that is no stackwise Analysis, so while the tasks of a step are being
\* invoked the output tree already holds the results of those invoked.
C10_MergedAfterEachTask ==
    /\ MidStep => \A v \in StepViews : Holds(G, S, run.vg, v)
    /\ \A x \in 1..Len(log) :
         (log[x].e = "apply" /\ ~IsStackwise(log[x].a)) =>
            \/ x = Len(log) /\ pc = "idle" /\ outcome # "ok"
            \/ /\ x < Len(log)
               /\ log[x + 1] = Event("merge", log[x].s, log[x].a, 0)

C10_Witness ==
    /\ MidStep
    /\ StepViews # {}
    /\ \A v \in StepViews : Holds(G, S, run.vg, v)

\* The last operation of SpecTree
LastOp == hist[Len(hist)]

\* The operations so far are leaf assignments only
OnlyAssignments ==
    \A i \in 1..Len(hist) : hist[i].op \in {"assign", "set_path"}

\* The assignments made to the tree of root r, in order
AssignedTo(r) == SelectSeq(hist, LAMBDA h : h.root = r /\ h.err = "")

\* The keys of the paths of a sequence of assignments, each once, in order
\* of first assignment
RECURSIVE FirstKeys(_, _, _)
FirstKeys(A, j, acc) ==
    IF j > Len(A) THEN acc
    ELSE FirstKeys(A, j + 1,
                   IF InSeq(PathKey(A[j].path), acc) THEN acc
                   ELSE Append(acc, PathKey(A[j].path)))

\* C2: after any sequence of leaf assignments on unfixed trees, overwrites
\* included, the flat index of a root maps every assigned path to the value
\* last assigned to it, with its keys in order of first assignment.
C2_IndexHoldsLastAssigned ==
    OnlyAssignments =>
      \A r \in Roots :
        /\ PIKeys(G[r].path_items) = FirstKeys(AssignedTo(r), 1, <<>>)
        /\ \A i \in 1..Len(AssignedTo(r)) :
             (\A x \in (i + 1)..Len(AssignedTo(r)) :
                 AssignedTo(r)[x].path # AssignedTo(r)[i].path) =>
               PIGet(G[r].path_items, PathKey(AssignedTo(r)[i].path))
                 = AssignedTo(r)[i].val

\* C4: when a root merges another tree and a key is in both flat indexes,
\* the entry of the root after the merge is the value it had, with the
\* other's value merged into it.
C4_TieMergedIntoExisting ==
    (hist # <<>> /\ LastOp.op = "update" /\ LastOp.err = "") =>
      \A j \in 1..Len(pre.G[LastOp.root].path_items) :
        LET key == pre.G[LastOp.root].path_items[j].key
            old == pre.G[LastOp.root].path_items[j].val
            oth == pre.G[LastOp.val.i].path_items
        IN (PIHas(oth, key) /\ old.k = "stack" /\ PIGet(oth, key).k = "stack") =>
             /\ PIGet(G[LastOp.root].path_items, key) = old
             /\ S[old.i] = StackUpdate(pre.S[old.i], pre.S[PIGet(oth, key).i])

\* C5: once the root is fixed, every attempt to assign a leaf, or to create
\* a child, at the root or directly under a first-level child fails with the
\* fixed-tree error and changes nothing, whether the label exists or not
\* (a path through a leaf is no place of the tree and is left out).
C5_FixedRootRefuses ==
    (/\ hist # <<>>
     /\ LastOp.op \in {"assign", "set_path", "access"}
     /\ pre.G[LastOp.root].fixed
     /\ Len(LastOp.path) <= 2
     /\ Len(LastOp.path) = 2 =>
          pre.G[LastOp.root].slots[LastOp.path[1]].k \in {"group", "none"}
     /\ LastOp.op = "access" =>
          Walk(pre.G, GroupV(LastOp.root), LastOp.path) = NoneV) =>
      /\ LastOp.err = "FixedTreeError"
      /\ G = pre.G
      /\ S = pre.S

\* The task about to be invoked is an Analysis that is not stackwise
LiveAnalysisNext ==
    /\ pc = "task"
    /\ T[scheduled[run.ti]].cls = "Analysis"
    /\ ~T[scheduled[run.ti]].stackwise

\* What the reference of the task about to be invoked finds in the tree of
\* root n (NoneV: nothing there)
RefIn(n) == Walk(G, GroupV(n), T[scheduled[run.ti]].ref[1])

\* C11 as claimed: an Analysis that is not stackwise resolves its reference
\* against the output tree: whenever the path is populated there, the
\* resolution succeeds and the transform is applied to the value found there.
C11_ResolvesInOutputTree ==
    [][(LiveAnalysisNext /\ RefIn(run.vg) # NoneV) =>
         /\ Len(log') >= Len(log) + 4
         /\ log'[Len(log) + 3] =
              Event("resolve", run.si, scheduled[run.ti], RefIn(run.vg).i)
         /\ log'[Len(log) + 4].e = "apply"]_vars

\* C11 amended: an Analysis that is not stackwise resolves its reference
\* against the buffer of the step: when a task before it has populated the
\* path in this step the transform is applied to the buffer's value, and
\* otherwise the run ends with the resolution error, nothing applied.
C11_ResolvesInStepBuffer ==
    [][LiveAnalysisNext =>
         IF RefIn(run.buf) # NoneV
         THEN /\ Len(log') >= Len(log) + 4
              /\ log'[Len(log) + 3] =
                   Event("resolve", run.si, scheduled[run.ti], RefIn(run.buf).i)
              /\ log'[Len(log) + 4].e = "apply"
         ELSE /\ pc' = "idle"
              /\ outcome' = "UnresolvedReferenceError"
              /\ Len(log') = Len(log) + 2]_vars

C11_Witness ==
    \E x \in 1..Len(log) :
       /\ log[x].e = "resolve"
       /\ log[x].s = 2
       /\ Walk(G, GroupV(run.vg), <<"a", "b">>).k = "stack"
       /\ log[x].b # Walk(G, GroupV(run.vg), <<"a", "b">>).i

\* The task invocations of the last call, in order
Invokes == SelectSeq(log, LAMBDA ev : ev.e = "invoke")

\* The events of the last call that belong to a step
StepEvents == SelectSeq(log, LAMBDA ev : ev.e # "overlay")

\* C12: in every step the tasks are invoked in the order of their entries in
\* the flat index of the template, and the events of a step (its merges
\* included) all come before the first event of the next step.
C12_TemplateOrderStepByStep ==
    pre.vg # 0 =>
      /\ \A i \in 1..Len(Invokes) :
           /\ Invokes[i].s = ((i - 1) \div Len(pre.G[Coll].path_items)) + 1
           /\ Invokes[i].a =
                pre.G[Coll].path_items[((i - 1) % Len(pre.G[Coll].path_items)) + 1].val.i
      /\ RunDone => Len(Invokes) = Len(pre.G[Coll].path_items) * Len(run.times)
      /\ \A x \in 1..(Len(StepEvents) - 1) :
           StepEvents[x].s <= StepEvents[x + 1].s

C12_Witness ==
    /\ RunDone
    /\ Len(pre.G[Coll].path_items) = 3
    /\ Len(run.times) = 2
    /\ Len(Invokes) = 6
    /\ Invokes[5].a = pre.G[Coll].path_items[2].val.i

\* C13: after a run has returned normally and until the next run, the flat
\* index of the template is what the run found: every registration attempt
\* is refused and leaves it unchanged.
C13_TemplateFrozenAfterRun ==
    RunDone =>
      /\ G[Coll].fixed
      /\ G[Coll].path_items = pre.G[Coll].path_items

\* A call is between its compile step and its return
Running == pc \in {"step", "task", "finish"}

\* C14: from the start of a run and while its tasks execute, the template
\* and the output tree are both unlocked, whatever their locks were before
\* the call; once the run has returned normally both are fixed.
C14_UnlockedInRunFixedAfter ==
    /\ Running => (~G[Coll].fixed /\ ~G[run.vg].fixed)
    /\ RunDone => (G[Coll].fixed /\ G[run.vg].fixed)

C14_Witness ==
    /\ pc = "task"
    /\ pre.G[Coll].fixed
    /\ pre.G[pre.vg].fixed
    /\ ~G[Coll].fixed
    /\ ~G[run.vg].fixed

\* The last call ended with an exception raised by task run.ti of step
\* run.si, after a compile step that passed
FailedInStep ==
    /\ pc = "idle"
    /\ pre.vg # 0
    /\ outcome \notin {"none", "running", "ok", "SchedulingError"}

\* C15: when a task raises in step k, no later task and no later step is
\* executed, the clock stays where step k put it, and the output tree still
\* holds, for each SET task, the entries merged in the steps before k.
C15_FailureStopsRunKeepsMerged ==
    FailedInStep =>
      /\ clock = pre.clock + run.times[run.si]
      /\ Len(Invokes) = (run.si - 1) * Len(scheduled) + run.ti
      /\ Invokes[Len(Invokes)] = Event("invoke", run.si, scheduled[run.ti], 0)
      /\ \A x \in 1..Len(log) :
           (log[x].e = "apply" /\ log[x].s < run.si /\ IsSetTask(log[x].a)) =>
             LET leaf == Walk(G, GroupV(run.vg), T[log[x].a].path.p) IN
             /\ leaf.k = "stack"
             /\ log[x].b \in DOMAIN S[leaf.i]
             /\ S[leaf.i][log[x].b] = ViewV(log[x].v)

C15_Witness ==
    /\ FailedInStep
    /\ run.si = 2
    /\ run.ti < Len(scheduled)
    /\ clock = pre.clock + run.times[2]
    /\ \E x \in 1..Len(log) :
          /\ log[x].e = "apply"
          /\ log[x].s = 1
          /\ IsSetTask(log[x].a)
          /\ Walk(G, GroupV(run.vg), T[log[x].a].path.p).k = "stack"

\* C16: a run called without a viewgroup collects into an empty tree: when
\* it has returned, the tree holds at the path of every SET task a series
\* with exactly one entry per scheduled time (nothing when times is empty).
C16_DefaultTreeStartsEmpty ==
    (RunDone /\ run.vg = DefaultVG) =>
      \A j \in 1..Len(scheduled) :
        IsSetTask(scheduled[j]) =>
          LET leaf == Walk(G, GroupV(run.vg), T[scheduled[j]].path.p) IN
          IF run.times = <<>> THEN leaf = NoneV
          ELSE /\ leaf.k = "stack"
               /\ Cardinality(DOMAIN S[leaf.i]) = Len(run.times)

\* The template a call found holds a MERGE-mode task under a path (a tuple)
HasMergeAtPath(g) ==
    \E j \in 1..Len(g[Coll].path_items) :
       /\ g[Coll].path_items[j].key.tuple
       /\ g[Coll].path_items[j].val.k = "task"
       /\ T[g[Coll].path_items[j].val.i].mode = "merge"

\* C17: a call whose template holds a MERGE-mode task under a path, as after
\* c.<path> = c.collect(obj), ends with the scheduling error before any
\* step, with nothing compiled.
C17_MergeAtPathAborts ==
    (pre.vg # 0 /\ HasMergeAtPath(pre.G)) =>
      /\ pc = "idle"
      /\ outcome = "SchedulingError"
      /\ log = <<>>
      /\ clock = pre.clock
      /\ scheduled = <<>>

C17_Witness ==
    /\ pre.vg # 0
    /\ HasMergeAtPath(pre.G)
    /\ outcome = "SchedulingError"
    /\ scheduled = <<>>
    /\ PIHas(pre.G[Coll].path_items, UuidKey(Uuids[1]))
    /\ PIHas(pre.G[Coll].path_items, PathKey(<<"a", "b">>))

\* The last event of the call under way is the merge that follows the call
\* of a MERGE-mode task, and that merge went through
MergeTaskMerged ==
    /\ log # <<>>
    /\ outcome \in {"running", "ok"}
    /\ log[Len(log)].e = "merge"
    /\ T[log[Len(log)].a].mode = "merge"

\* The ViewGroup returned by the hook of the last MERGE-mode task called
LastTree ==
    log[CHOOSE x \in 1..Len(log) :
          /\ log[x].e = "tree"
          /\ \A y \in (x + 1)..Len(log) : log[y].e # "tree"].b

\* C18: once a MERGE-mode task under a uuid key has been called in a step
\* and the buffer merged, every leaf of the ViewGroup its hook returned (p,
\* q and the nested z.p) is in the flat index of the output tree under its
\* path, with its value.
C18_MergedLeavesInFlatIndex ==
    MergeTaskMerged =>
      \A path \in Range(HookLeaves) :
        /\ Walk(G, GroupV(LastTree), path).k = "view"
        /\ PIHas(G[run.vg].path_items, PathKey(path))
        /\ PIGet(G[run.vg].path_items, PathKey(path))
             = Walk(G, GroupV(LastTree), path)

C18_Witness ==
    /\ RunDone
    /\ Len(run.times) = 1
    /\ MergeTaskMerged
    /\ PIGet(G[run.vg].path_items, PathKey(<<"p">>)).k = "view"
    /\ PIGet(G[run.vg].path_items, PathKey(<<"q">>)).k = "view"
    /\ PIGet(G[run.vg].path_items, PathKey(<<"z", "p">>)).k = "view"
    /\ PIGet(G[run.vg].path_items, PathKey(<<"p">>))
         # PIGet(G[run.vg].path_items, PathKey(<<"q">>))

\* Structural equality of the value v1 in the heaps (g1, s1) and the value
\* v2 in the heaps (g2, s2): Stacks by their entries, ViewGroups by label,
\* children, lock and the values of their children.
RECURSIVE ValEq(_, _, _, _, _, _, _)
ValEq(g1, s1, v1, g2, s2, v2, fuel) ==
    IF v1.k # v2.k THEN FALSE
    ELSE IF v1.k = "stack" THEN s1[v1.i] = s2[v2.i]
    ELSE IF v1.k = "group"
    THEN /\ fuel > 0
         /\ g1[v1.i].label = g2[v2.i].label
         /\ g1[v1.i].children = g2[v2.i].children
         /\ g1[v1.i].fixed = g2[v2.i].fixed
         /\ \A l \in Labels :
               ValEq(g1, s1, g1[v1.i].slots[l], g2, s2, g2[v2.i].slots[l], fuel - 1)
    ELSE v1 = v2

\* The flat index of root after the last operation has the keys of the one
\* before it, in the same order, with structurally equal values
SameFlatIndex(root) ==
    /\ Len(G[root].path_items) = Len(pre.G[root].path_items)
    /\ \A j \in 1..Len(pre.G[root].path_items) :
          /\ G[root].path_items[j].key = pre.G[root].path_items[j].key
          /\ ValEq(pre.G, pre.S, pre.G[root].path_items[j].val,
                   G, S, G[root].path_items[j].val, Len(G))

\* C19: merging an empty tree into a root tree leaves the root's flat index
\* as it was (same keys, same value objects with the same contents, same
\* order), and merging a structural copy of a root tree into it leaves a flat
\* index with the same keys and structurally equal values.
C19_EmptyAndCopyMergeKeepFlatIndex ==
    Len(hist) > 0 =>
       /\ (LastOp.op = "update" /\ EmptyTree(pre.G, LastOp.val.i)) =>
             /\ G[LastOp.root].path_items = pre.G[LastOp.root].path_items
             /\ SameFlatIndex(LastOp.root)
       /\ LastOp.op = "update_copy" => SameFlatIndex(LastOp.root)

\* A root tree that received a leaf, then an empty tree by a merge, and
\* last a structural copy of itself by a merge
C19_Witness ==
    /\ Len(hist) > 2
    /\ LastOp.op = "update_copy"
    /\ LastOp.err = ""
    /\ Len(G[LastOp.root].path_items) >= 1
    /\ \E j \in 2..(Len(hist) - 1) :
          /\ hist[j].op = "update"
          /\ hist[j].root = LastOp.root
          /\ EmptyTree(G, hist[j].val.i)
          /\ hist[j - 1].op \in {"assign", "set_path"}
          /\ hist[j - 1].root = LastOp.root
          /\ hist[j - 1].err = ""

\* Both operands resolve in the tree, each to an object
BothResolve(A, B) ==
    /\ ResolveSliced(Here, A).err = ""
    /\ ResolveSliced(Here, B).err = ""
    /\ A.spec # <<>>
    /\ B.spec # <<>>

\* C20: whenever two distinct handles A and B that both resolve in the tree
\* are composed, the composition is made and resolves to the overlay of what
\* A resolves to with what B resolves to.
C20_ComposeResolvesAsOverlay ==
    [][\A a, b \in 1..Len(Refs) :
          (RefMul(a, b) /\ a # b /\ BothResolve(Refs[a], Refs[b])) =>
             /\ Len(Refs') = Len(Refs) + 1
             /\ ResolveSliced(Here, Refs'[Len(Refs')])
                  = Overlaid(ResolveSliced(Here, Refs[a]), ResolveSliced(Here, Refs[b]))]_vars

\* C21: composing a handle with itself fails with the self-composition
\* exception and leaves every handle (specification list and slice map) as
\* it was, and composing two distinct handles never fails: it makes a new
\* handle.
C21_SelfComposeFailsOthersSucceed ==
    [][\A a, b \in 1..Len(Refs) :
          RefMul(a, b) =>
             IF a = b THEN outcome' = "Exception" /\ Refs' = Refs
             ELSE outcome' = "ok" /\ Len(Refs') = Len(Refs) + 1]_vars

\* The position in ref of the first label not found when the tree of root
\* is walked along ref, 0 when every label is found
FirstMiss(g, root, ref) ==
    IF \A j \in 1..Len(ref) : Walk(g, GroupV(root), SubSeq(ref, 1, j)) # NoneV
    THEN 0
    ELSE CHOOSE j \in 1..Len(ref) :
            /\ Walk(g, GroupV(root), SubSeq(ref, 1, j)) = NoneV
            /\ \A m \in 1..(j - 1) : Walk(g, GroupV(root), SubSeq(ref, 1, m)) # NoneV

\* The labels of ref before position j lead to a ViewGroup of the tree
AtGroup(g, root, ref, j) ==
    j > 0 /\ Walk(g, GroupV(root), SubSeq(ref, 1, j - 1)).k = "group"

\* There is a handle of one specification of n labels whose first missing
\* label is at position j, missing in a ViewGroup
MissAt(j, n) ==
    \E r \in 1..Len(Refs) :
       /\ Len(Refs[r].spec) = 1
       /\ Len(Refs[r].spec[1]) = n
       /\ FirstMiss(G, DefaultVG, Refs[r].spec[1]) = j
       /\ AtGroup(G, DefaultVG, Refs[r].spec[1], j)

\* C22: resolving a handle whose specification names a label missing in a
\* ViewGroup of the tree ends with the unresolved-reference error, which
\* carries the whole specification and the first label that is missing,
\* whatever the position of that label; a handle whose labels are all found
\* resolves.
C22_MissRaisesUnresolvedWithLabel ==
    [][\A r \in 1..Len(Refs) :
          (RefResolve(r) /\ Len(Refs[r].spec) = 1) =>
             LET ref == Refs[r].spec[1]
                 miss == FirstMiss(G, DefaultVG, ref)
                 res == ResolveSliced(Here, Refs[r])
             IN IF miss = 0 THEN res.err = "" /\ outcome' = "ok"
                ELSE AtGroup(G, DefaultVG, ref, miss) =>
                     /\ outcome' = "UnresolvedReferenceError"
                     /\ res.err = "UnresolvedReferenceError"
                     /\ res.info = Unresolved(ref, ref[miss])]_vars

\* A resolve has just failed where three handles miss at the first label,
\* at the middle label of three and at the last label
C22_Witness ==
    /\ outcome = "UnresolvedReferenceError"
    /\ MissAt(1, 1)
    /\ MissAt(2, 3)
    /\ MissAt(2, 2)

\* The positions in the inheritance chain of c of the classes a hook is
\* registered for
RegisteredIn(c) == {j \in 1..Len(Mro(c)) : Mro(c)[j] \in DOMAIN type_hooks}

\* C23: selecting a hook for an object of class c returns the entry
\* registered for the first class of c's inheritance chain (most derived
\* first) that has one, and fails with the no-hook error when no class of
\* the chain has one.
C23_SelectsMostDerivedRegistered ==
    [][\A c \in Classes :
          SelectHook(c) =>
             IF RegisteredIn(c) = {}
             THEN outcome' = "NoHookFoundError" /\ selected' = NoEntry
             ELSE /\ outcome' = "ok"
                  /\ \E j \in RegisteredIn(c) :
                        /\ \A m \in RegisteredIn(c) : j <= m
                        /\ selected' = type_hooks[Mro(c)[j]]]_vars

\* A selection has returned the entry of B while A, B and C hold three
\* different entries, object holds another one than B, and D has none
C23_Witness ==
    /\ outcome = "ok"
    /\ DOMAIN type_hooks = {"A", "B", "C", "object"}
    /\ type_hooks["A"] # type_hooks["B"]
    /\ type_hooks["B"] # type_hooks["C"]
    /\ type_hooks["A"] # type_hooks["C"]
    /\ type_hooks["object"] # type_hooks["B"]
    /\ selected = type_hooks["B"]

\* C24: while a call runs after its compile step, the run list has one
\* entry per entry of the template's flat index, in the order of the index,
\* each the task stored in that entry, with its path equal to the key of
\* that entry; this holds for the first run and for every later one.
C24_RunListMirrorsFlatIndex ==
    Running =>
       /\ Len(scheduled) = Len(G[Coll].path_items)
       /\ \A j \in 1..Len(scheduled) :
             /\ G[Coll].path_items[j].val = TaskV(scheduled[j])
             /\ T[scheduled[j]].path = G[Coll].path_items[j].key

\* The task about to be invoked is a stackwise Analysis
StackwiseNext ==
    /\ pc = "task"
    /\ T[scheduled[run.ti]].cls = "Analysis"
    /\ T[scheduled[run.ti]].stackwise

\* The invocation under way calls the transform, or ends in the resolution
\* of the reference that precedes it
TransformReached ==
    \/ \E x \in (Len(log) + 1)..Len(log') : log'[x].e = "apply"
    \/ outcome' = "UnresolvedReferenceError"

\* The invocation under way produces no result and changes no tree
NoResult ==
    /\ Len(log') = Len(log) + 2
    /\ outcome' # "UnresolvedReferenceError"
    /\ G' = G
    /\ S' = S

\* C25 as claimed: a stackwise Analysis applies its transform exactly at the
\* steps whose current time is the maximum of the times list, and produces
\* no result at every other step, whatever the order of the times list.
C25_StackwiseAtMaxTime ==
    [][StackwiseNext =>
         IF clock = MaxOf(run.times) THEN TransformReached ELSE NoResult]_vars

\* C25 amended: a stackwise Analysis applies its transform exactly at the
\* steps whose current time is the last element of the times list, and
\* produces no result at every other step.
C25_StackwiseAtLastElement ==
    [][StackwiseNext =>
         IF clock = run.times[Len(run.times)] THEN TransformReached ELSE NoResult]_vars

\* A completed run over a times list whose last element is not its maximum,
\* in which the stackwise Analysis applied its transform at the last element
C25_Witness ==
    /\ RunDone
    /\ run.times # <<>>
    /\ run.times[Len(run.times)] < MaxOf(run.times)
    /\ \E x \in 1..Len(log) :
          /\ log[x].e = "apply"
          /\ IsStackwise(log[x].a)
          /\ log[x].b = run.times[Len(run.times)]

\* The Stack objects of the tree of root n: those below it and those of its
\* flat index
StacksOf(g, n) ==
    StacksBelow(g, n, Len(g))
    \cup {g[n].path_items[j].val.i :
            j \in {x \in 1..Len(g[n].path_items) : g[n].path_items[x].val.k = "stack"}}

\* Every entry of the buffer of the step under way is a View made in this
\* step, stored at the current time
BufferOfStepOnly ==
    \A k \in StacksOf(G, run.buf) :
       \A t \in DOMAIN S[k] : t = clock /\ S[k][t].i \in StepViews

\* Every entry the output tree holds after the invocation under way was held
\* unchanged before it or is a View made in the step under way
GainsStepOnly ==
    \A k \in StacksOf(G', run.vg) :
       \A t \in DOMAIN S'[k] :
          \/ /\ k \in StacksOf(G, run.vg)
             /\ t \in DOMAIN S[k]
             /\ S'[k][t] = S[k][t]
          \/ \E x \in 1..Len(log') :
                /\ log'[x].e = "apply"
                /\ log'[x].s = run.si
                /\ log'[x].v = S'[k][t].i

\* C26: every step starts with an empty buffer; a task that is no stackwise
\* Analysis is invoked on a buffer holding only results made earlier in the
\* same step; and an invocation adds to the output tree only results of the
\* step under way.
C26_StepBufferHoldsStepOnly ==
    [][/\ Step => EmptyTree(G', run'.buf)
       /\ (Invoke /\ ~IsStackwise(scheduled[run.ti])) => BufferOfStepOnly
       /\ Invoke => GainsStepOnly]_vars

\* The second task of a later step is about to be invoked on a buffer that
\* holds this step's result, while the output tree holds results of the
\* steps before, which the buffer does not hold
C26_Witness ==
    /\ MidStep
    /\ run.si > 1
    /\ ~IsStackwise(scheduled[run.ti])
    /\ StepViews # {}
    /\ \A v \in StepViews : Holds(G, S, run.buf, v)
    /\ \E x \in 1..Len(log) :
          /\ log[x].e = "apply"
          /\ log[x].s < run.si
          /\ Holds(G, S, run.vg, log[x].v)
          /\ ~Holds(G, S, run.buf, log[x].v)

\* C27: a task whose path is None, called by hand, raises the exception of
\* the missing path; nothing is resolved, no transform is applied, and the
\* tree it was called on, like every other object, stays as it was.
C27_UnscheduledCallFailsFirst ==
    [][\A t \in 1..Len(T) : \A vg \in TaskVGs : \A time \in DirectTimes :
          (T[t].path = NoKey /\ DirectInvoke(t, vg, time))
          => /\ hist'[Len(hist')].err = "UnscheduledTaskError"
             /\ G' = G
             /\ S' = S
             /\ log' = log
             /\ nv' = nv]_vars

\* A task registered after a run that filled the default ViewGroup was
\* called on that ViewGroup and failed for its missing path
C27_Witness ==
    /\ hist # <<>>
    /\ LastOp.op = "invoke"
    /\ LastOp.err = "UnscheduledTaskError"
    /\ pre.G[pre.vg].path_items # <<>>

\* The hook of task t returns None when called at this time
NullResult(t, vg, time) ==
    LET R == GetResult(Here, t, vg, time, <<time>>, 0)
    IN R.err = "" /\ R.ret = NoneV

\* C28: a call of a task that has a path and whose hook returns None raises
\* nothing and returns the viewgroup it was given; every ViewGroup (its
\* children, leaves and path_items) and every Stack is as before, whether
\* the task is of SET or of MERGE mode.
C28_NullResultReturnsTreeUnchanged ==
    [][\A t \in 1..Len(T) : \A vg \in TaskVGs : \A time \in DirectTimes :
          (/\ T[t].path # NoKey
           /\ NullResult(t, vg, time)
           /\ DirectInvoke(t, vg, time))
          => /\ hist'[Len(hist')].err = ""
             /\ hist'[Len(hist')].val = GroupV(vg)
             /\ G' = G
             /\ S' = S]_vars

\* The hand calls recorded in hist that returned for a task of the given
\* mode whose hook returns None
NullCalls(mode) ==
    {j \in 1..Len(hist) :
        /\ hist[j].op = "invoke"
        /\ hist[j].err = ""
        /\ \E t \in 1..Len(T) : /\ T[t].path.p = hist[j].path
                                /\ T[t].path # NoKey
                                /\ T[t].hook = "none"
                                /\ T[t].mode = mode}

\* A ViewGroup filled by an earlier call was handed to a SET-mode task and
\* to a MERGE-mode task whose hooks return None, and both calls returned
C28_Witness ==
    /\ NullCalls("set") # {}
    /\ NullCalls("merge") # {}
    /\ LastOp.op = "invoke"
    /\ LastOp.val = GroupV(DefaultVG)
    /\ pre.G[DefaultVG].path_items # <<>>
    /\ G[DefaultVG] = pre.G[DefaultVG]

\* C29: r.<label> on a ViewRef with no specification leaves it with the one
\* specification (label,); with one specification it appends the label to
\* that specification; in both cases the object returned is r itself. On a
\* ViewRef with more than one specification it raises and r is as before.
\* No other ViewRef and no slice changes.
C29_ExtendStartsAppendsOrFails ==
    [][\A r \in 1..Len(Refs) : \A label \in ExtLabels :
          RefGetAttr(r, label)
          => /\ Len(Refs[r].spec) = 0
                => /\ Refs'[r].spec = <<<<label>>>>
                   /\ hist'[Len(hist')].err = ""
                   /\ hist'[Len(hist')].val = RefV(r)
             /\ Len(Refs[r].spec) = 1
                => /\ Refs'[r].spec = <<Append(Refs[r].spec[1], label)>>
                   /\ hist'[Len(hist')].err = ""
                   /\ hist'[Len(hist')].val = RefV(r)
             /\ Len(Refs[r].spec) > 1
                => /\ Refs'[r] = Refs[r]
                   /\ hist'[Len(hist')].err = "AttributeError"
             /\ Len(Refs') = Len(Refs)
             /\ Refs'[r].slices = Refs[r].slices
             /\ \A q \in 1..Len(Refs) : q # r => Refs'[q] = Refs[q]]_vars

\* An empty ViewRef was given a first label and a second one, and an
\* attribute access on a composed ViewRef has failed
C29_Witness ==
    /\ Len(hist) = 3
    /\ hist[1].op = "getattr" /\ hist[1].err = ""
    /\ hist[2].op = "getattr" /\ hist[2].err = ""
    /\ hist[2].root = hist[1].root
    /\ Refs[hist[1].root].spec = <<hist[1].path \o hist[2].path>>
    /\ hist[3].err = "AttributeError"
    /\ Len(Refs[hist[3].root].spec) > 1

\* The operations so far are leaf assignments and merges only
OnlyAssignsAndMerges ==
    \A i \in 1..Len(hist) : hist[i].op \in {"assign", "update"}

\* Entry e of a flat index of the tree of root r is keyed by the path of a
\* leaf of that tree and holds a leaf value
LeafEntry(r, e) ==
    /\ e.val.k = "stack"
    /\ Walk(G, GroupV(r), e.key.p).k = "stack"

\* C30: after leaf assignments and merges on trees that were empty, every
\* entry of a root's path_items is keyed by the full path of a leaf of the
\* tree and holds a leaf value, never a ViewGroup, and the path_items of
\* every ViewGroup that has a parent is empty.
C30_FlatIndexOfLeavesAtRootOnly ==
    OnlyAssignsAndMerges =>
      /\ \A r \in Roots :
           \A j \in 1..Len(G[r].path_items) : LeafEntry(r, G[r].path_items[j])
      /\ \A n \in 1..Len(G) : G[n].parent # 0 => G[n].path_items = <<>>

\* The operations so far are child accesses, leaf assignments and merges
OnlyTreeBuilding ==
    \A i \in 1..Len(hist) : hist[i].op \in {"access", "assign", "update"}

\* Every ViewGroup stored under a label of a ViewGroup carries that label
\* and has that ViewGroup as its parent
ChildrenOwned ==
    \A n \in 1..Len(G) : \A l \in Labels :
       G[n].slots[l].k = "group"
       => /\ G[G[n].slots[l].i].label = l
          /\ G[G[n].slots[l].i].parent = n

\* The last operation assigned a leaf at a new path below a root that had
\* merged another tree before
AssignedAfterMerge ==
    /\ hist # <<>>
    /\ LastOp.op = "assign"
    /\ LastOp.err = ""
    /\ Walk(pre.G, GroupV(LastOp.root), LastOp.path) = NoneV
    /\ \E i \in 1..(Len(hist) - 1) :
          hist[i].op = "update" /\ hist[i].root = LastOp.root /\ hist[i].err = ""

\* C31: after child accesses, leaf assignments and merges, every ViewGroup
\* stored under label L of a ViewGroup P has label L and parent P, and a
\* leaf assigned at a new path below a root after a merge is entered in the
\* path_items of that root while the path_items of every other root stay as
\* they were.
C31_SubtreesOwnedAndIndexedAtRoot ==
    OnlyTreeBuilding =>
      /\ ChildrenOwned
      /\ AssignedAfterMerge =>
           /\ PIHas(G[LastOp.root].path_items, PathKey(LastOp.path))
           /\ \A r \in Roots \ {LastOp.root} :
                G[r].path_items = pre.G[r].path_items

\* C32: r.resolve(g) leaves every ViewGroup (children, leaves, path_items)
\* and every Stack as it was, and every ViewRef too, whether it returns or
\* raises; and resolved again with no operation in between, it gives what
\* it gave before.
C32_ResolveChangesNothing ==
    [][\A r \in 1..Len(Refs) :
          RefLookup(r)
          => /\ G' = G
             /\ S' = S
             /\ Refs' = Refs
             /\ (hist # <<>> /\ LastOp.op = "resolve" /\ LastOp.root = r)
                => /\ hist'[Len(hist')].val = LastOp.val
                   /\ hist'[Len(hist')].err = LastOp.err]_vars

\* A handle was resolved twice in a row against a tree that holds leaves:
\* either both calls failed at a missing label below an existing ViewGroup,
\* or both gave an overlay
C32_Witness ==
    /\ Len(hist) >= 3
    /\ LastOp.op = "resolve"
    /\ hist[Len(hist) - 1].op = "resolve"
    /\ hist[Len(hist) - 1].root = LastOp.root
    /\ G[DefaultVG].path_items # <<>>
    /\ LastOp.err = "UnresolvedReferenceError"
    /\ Len(Refs[LastOp.root].spec[1]) > 1
    /\ G[DefaultVG].slots[Refs[LastOp.root].spec[1][1]].k = "group"

\* The handles that were sliced: r[index] was evaluated on the object
SlicedHandles == {hist[j].root : j \in {x \in 1..Len(hist) : hist[x].op = "getitem"}}

\* C33: after attribute extensions, slices and compositions, every key of
\* the slices of a ViewRef is one of its specifications, and every
\* specification of a ViewRef that was sliced has a slice stored under it,
\* which is the one resolve applies.
C33_SliceKeysAreSpecifications ==
    \A r \in 1..Len(Refs) :
       /\ \A e \in Refs[r].slices : InSeq(e.key, Refs[r].spec)
       /\ r \in SlicedHandles
          => \A j \in 1..Len(Refs[r].spec) :
                SliceOf(Refs[r].slices, Refs[r].spec[j]) # NoSlice

\* The times the tasks are given in a run over times from clock c0
OffsetTimes(times, c0) == {c0 + times[j] : j \in 1..Len(times)}

\* C34: the time read for the tasks of step i, and the time of every
\* transform applied in it, is the clock at the call plus times[i]; a
\* completed run of one SET task at (a,b) into an empty tree leaves a Stack
\* keyed by those times, which are the scheduled times exactly when the
\* clock was 0 at the call.
C34_TimesOffsetByStartClock ==
    /\ \A x \in 1..Len(log) :
         /\ log[x].e = "read" => log[x].a = pre.clock + run.times[log[x].s]
         /\ log[x].e = "apply" => log[x].b = pre.clock + run.times[log[x].s]
    /\ (RunDone /\ run.times # <<>> /\ EmptyTree(pre.G, pre.vg)
        /\ OnlySetTaskAB(pre.G))
       => LET leaf == Walk(G, GroupV(run.vg), <<"a", "b">>) IN
          /\ leaf.k = "stack"
          /\ DOMAIN S[leaf.i] = OffsetTimes(run.times, pre.clock)
          /\ (DOMAIN S[leaf.i] = Range(run.times)) <=> (pre.clock = 0)

\* A run of two or more steps that started with the clock past 0 has
\* completed, with one SET task at (a,b) and an empty tree to fill
C34_Witness ==
    /\ RunDone
    /\ pre.clock > 0
    /\ Len(run.times) >= 2
    /\ EmptyTree(pre.G, pre.vg)
    /\ OnlySetTaskAB(pre.G)
    /\ clock = pre.clock + run.times[Len(run.times)]

====
